---- MODULE Spec2Model ----
(***************************************************************************)
(* A model of the database-optimizer service: the DDL parser, the query    *)
(* analyzer and its statistics, the report creator, the query-coverage     *)
(* analysis, the live-database profiling phase of DataAnalyzer and the     *)
(* task lifecycle of the HTTP API.                                         *)
(*                                                                         *)
(* SQL text is a sequence of atoms.  An atom is one lexical unit of the    *)
(* text: a maximal run of [A-Za-z0-9_] characters (a word, with its letter *)
(* case kept), one blank " ", or one punctuation character.  The regular   *)
(* expressions of the source are translated to scans over atoms.           *)
(***************************************************************************)
EXTENDS Integers, Sequences, FiniteSets, TLC

VARIABLES
    pc,                  \* position of the modelled call chain
    ddl_list,            \* input: list of {statement} items
    tables,              \* DDLParser.parse_ddl_statements result
    queries,             \* input: list of {queryid, query, runquantity, executiontime}
    analysis_result,     \* DataAnalyzer.analyze_input_data result
    db_analysis_report,  \* create_optimization_report result, then with schema_overview
    url,                 \* input: the JDBC url ("absent" when the key is missing)
    engine,              \* DatabaseStatsCollector.engine: "none", "created", "disposed"
    now,                 \* the clock, in minutes since the service was imported
    posted_at,           \* the clock when POST /new created the task
    batch_size,          \* input: config.batch_size
    task,                \* the row of the tasks table, <<>> while there is none
    raised,              \* the exception that left run_analysis_pipeline, "" if none
    response,            \* the last HTTP response sent
    logs,                \* the rows of the log_entries table
    foreign_keys,        \* whether the store enforces log_entries.task_id -> tasks.id
    unreadable,          \* the tables the live database fails to profile
    hash_order,          \* the order in which this process iterates aggregate_functions
    second_result,       \* the result of a repeated analyze_input_data call
    num_retries,         \* llm_call_with_so_and_fallback: the parameter num_retries
    attempt,             \* llm_call_with_so_and_fallback: the loop variable
    model,               \* llm_call_with_so_and_fallback: the model in use
    so_calls             \* the llm_call_with_so calls made so far: model and success

vars == <<pc, ddl_list, tables, queries, analysis_result, db_analysis_report,
          url, engine, now, posted_at, batch_size, task, raised, response,
          logs, foreign_keys, unreadable, hash_order, second_result,
          num_retries, attempt, model, so_calls>>

\* the service's variables, idle outside the task lifecycle
service == <<now, posted_at, batch_size, task, raised, response, logs, foreign_keys>>

\* the profiler's variables, idle outside analyze_input_data
profiler == <<url, engine, unreadable>>

\* the process's variables, idle outside the repeated analysis
llm == <<num_retries, attempt, model, so_calls>>
process == <<hash_order, second_result, llm>>

(***************************************************************************)
(* Bounds of the model.                                                    *)
(***************************************************************************)
MaxDDL == 3
MaxTables == 2
MaxQueries == 2
MaxClock == 22
MaxPatterns == 9

(***************************************************************************)
(* Text: atoms, letter case, python's str.split / str.strip.               *)
(***************************************************************************)
Blank == " "
DQuote == "\""
\* the atom of the backtick character
Backtick == "<backtick>"
Punct == {Blank, ".", ",", "(", ")", DQuote, Backtick, "=", "*", "'", ">", ";"}

IsWord(a) == a \notin Punct

\* str.lower() on one atom: the words of the model that hold capitals.
LowerOf ==
    ("CREATE" :> "create") @@ ("TABLE" :> "table") @@ ("WITH" :> "with") @@
    ("SELECT" :> "select") @@ ("FROM" :> "from") @@ ("JOIN" :> "join") @@
    ("LEFT" :> "left") @@ ("INNER" :> "inner") @@ ("ON" :> "on") @@
    ("AS" :> "as") @@ ("WHERE" :> "where") @@ ("DROP" :> "drop") @@
    ("Orders" :> "orders") @@ ("ORDERS" :> "orders") @@
    ("Sales" :> "sales") @@ ("SALES" :> "sales") @@
    ("Analytics" :> "analytics") @@ ("ANALYTICS" :> "analytics")

Lower(a) == IF a \in DOMAIN LowerOf THEN LowerOf[a] ELSE a

LowerText(s) == [i \in 1..Len(s) |-> Lower(s[i])]

\* case-insensitive comparison of one atom with a lower-case keyword
IsKw(a, kw) == Lower(a) = kw

\* first index >= i that holds no blank (Len(s) + 1 when there is none): \s*
RECURSIVE SkipWS(_, _)
SkipWS(s, i) == IF i <= Len(s) /\ s[i] = Blank THEN SkipWS(s, i + 1) ELSE i

\* end (exclusive) of the maximal run, from i on, of atoms outside Stop
RECURSIVE RunEnd(_, _, _)
RunEnd(s, i, Stop) ==
    IF i <= Len(s) /\ s[i] \notin Stop THEN RunEnd(s, i + 1, Stop) ELSE i

\* str.split(sep): empty parts are kept
RECURSIVE SplitOn(_, _)
SplitOn(s, sep) ==
    IF \A i \in 1..Len(s) : s[i] # sep
    THEN <<s>>
    ELSE LET k == CHOOSE i \in 1..Len(s) :
                      s[i] = sep /\ \A j \in 1..(i - 1) : s[j] # sep
         IN  <<SubSeq(s, 1, k - 1)>> \o SplitOn(SubSeq(s, k + 1, Len(s)), sep)

\* str.strip()
RECURSIVE Strip(_)
Strip(s) ==
    IF s = <<>> THEN s
    ELSE IF s[1] = Blank THEN Strip(Tail(s))
    ELSE IF s[Len(s)] = Blank THEN Strip(SubSeq(s, 1, Len(s) - 1))
    ELSE s

\* str.split(): split on runs of blanks, no empty parts
SplitWS(s) == SelectSeq(SplitOn(s, Blank), LAMBDA p : p # <<>>)

\* the text of blank-separated tokens
RECURSIVE Join(_)
Join(toks) ==
    IF toks = <<>> THEN <<>>
    ELSE IF Len(toks) = 1 THEN toks[1]
    ELSE toks[1] \o <<Blank>> \o Join(Tail(toks))

Min(S) == CHOOSE x \in S : \A y \in S : x <= y
Max(S) == CHOOSE x \in S : \A y \in S : x >= y

(***************************************************************************)
(* ddl_parser.py                                                           *)
(***************************************************************************)
\* an absent list (None) and an empty list are both <<>>
NoneList == <<>>

Column(name, data_type) ==
    [name |-> name, data_type |-> data_type, nullable |-> TRUE,
     constraints |-> NoneList]

Table(catalog, schema, name, columns) ==
    [catalog |-> catalog, schema |-> schema, name |-> name,
     columns |-> columns, indexes |-> NoneList, constraints |-> NoneList]

\* positions where the literal "CREATE TABLE" matches (IGNORECASE)
CreateTableAt(ddl) ==
    {i \in 1..(Len(ddl) - 2) :
        IsKw(ddl[i], "create") /\ ddl[i + 1] = Blank /\ IsKw(ddl[i + 2], "table")}

BlankOrParen == {Blank, "("}

\* re.search(r'CREATE TABLE\s+([^\s(]+)'): "" when there is no match
extract_table_name(ddl) ==
    LET starts == {i \in CreateTableAt(ddl) :
                      /\ i + 3 <= Len(ddl) /\ ddl[i + 3] = Blank
                      /\ SkipWS(ddl, i + 3) <= Len(ddl)
                      /\ ddl[SkipWS(ddl, i + 3)] \notin BlankOrParen}
    IN  IF starts = {} THEN <<>>
        ELSE LET b == SkipWS(ddl, Min(starts) + 3)
             IN  SubSeq(ddl, b, RunEnd(ddl, b, BlankOrParen) - 1)

parse_full_table_name(full_name) ==
    LET parts == SplitOn(full_name, ".")
    IN  IF Len(parts) = 3 THEN <<parts[1], parts[2], parts[3]>>
        ELSE IF Len(parts) = 2 THEN <<<<>>, parts[1], parts[2]>>
        ELSE <<<<>>, <<>>, parts[1]>>

parse_column_definition(col_def) ==
    LET parts == SplitWS(col_def)
    IN  IF Len(parts) < 2 THEN <<>>
        ELSE LET data_type ==
                     IF /\ \E i \in 1..Len(parts[2]) : parts[2][i] = "("
                        /\ \A i \in 1..Len(parts[2]) : parts[2][i] # ")"
                        /\ Len(parts) > 2
                     THEN parts[2] \o parts[3]
                     ELSE parts[2]
             IN  <<Column(parts[1], data_type)>>

split_column_definitions(columns_text) ==
    LET stripped == [i \in 1..Len(SplitOn(columns_text, ",")) |->
                        Strip(SplitOn(columns_text, ",")[i])]
    IN  SelectSeq(stripped, LAMBDA c : c # <<>>)

RECURSIVE ConcatAll(_)
ConcatAll(ss) == IF ss = <<>> THEN <<>> ELSE ss[1] \o ConcatAll(Tail(ss))

\* re.search(r'CREATE TABLE[^(]+\((.*)\)\s*WITH', DOTALL): the first "(" after
\* the literal, at least one atom later, up to the last ")" followed by WITH
ColumnsMatch(ddl, i) ==
    LET opens == {p \in (i + 3)..Len(ddl) : ddl[p] = "("}
        p == Min(opens)
        closes == {q \in (p + 1)..Len(ddl) :
                      /\ ddl[q] = ")"
                      /\ SkipWS(ddl, q + 1) <= Len(ddl)
                      /\ IsKw(ddl[SkipWS(ddl, q + 1)], "with")}
    IN  IF opens = {} \/ p < i + 4 \/ closes = {} THEN <<>>
        ELSE <<SubSeq(ddl, p + 1, Max(closes) - 1)>>

extract_columns(ddl) ==
    LET hits == {i \in CreateTableAt(ddl) : ColumnsMatch(ddl, i) # <<>>}
    IN  IF hits = {} THEN <<>>
        ELSE LET column_defs ==
                     split_column_definitions(ColumnsMatch(ddl, Min(hits))[1])
             IN  ConcatAll([k \in 1..Len(column_defs) |->
                               parse_column_definition(Strip(column_defs[k]))])

\* sqlparse.parse(ddl)[0] raises IndexError on the empty text; every exception
\* is caught and turned into None (<<>>), anything else is a Table (<<t>>)
parse_create_table(ddl) ==
    IF ddl = <<>> THEN <<>>
    ELSE LET n == parse_full_table_name(extract_table_name(ddl))
         IN  <<Table(n[1], n[2], n[3], extract_columns(ddl))>>

\* "if table:" is true of every Table object, whatever its fields
parse_ddl_statements(ddls) ==
    ConcatAll([k \in 1..Len(ddls) |-> parse_create_table(ddls[k].statement)])

(***************************************************************************)
(* query_analyzer.py                                                       *)
(***************************************************************************)
\* words that start with a digit: no identifier starts with them
DigitWords == {"10", "2", "1"}

\* [a-zA-Z0-9_.] is every atom but the punctuation other than "."
IdentStop == Punct \ {"."}
\* [a-zA-Z_] as the first character of an identifier
IdentStartStop == Punct \cup DigitWords

IsFromOrJoin(a) == IsKw(a, "from") \/ IsKw(a, "join")

\* re.findall(r'\b(?:FROM|JOIN)\s+(<first><rest>*)'): the captured groups, left
\* to right, searching on after each match.  StartStop: the atoms that cannot
\* start the group; Stop: the atoms that end it.
RECURSIVE FindRefs(_, _, _, _)
FindRefs(q, i, StartStop, Stop) ==
    LET starts == {k \in i..(Len(q) - 2) :
                      /\ IsFromOrJoin(q[k]) /\ q[k + 1] = Blank
                      /\ SkipWS(q, k + 1) <= Len(q)
                      /\ q[SkipWS(q, k + 1)] \notin StartStop}
    IN  IF starts = {} THEN <<>>
        ELSE LET b == SkipWS(q, Min(starts) + 1)
                 e == RunEnd(q, b, Stop)
             IN  <<SubSeq(q, b, e - 1)>> \o FindRefs(q, e, StartStop, Stop)

Range(f) == {f[x] : x \in DOMAIN f}

\* tables = set(); for match in matches: tables.add(match)
extract_tables(query) == Range(FindRefs(query, 1, IdentStartStop, IdentStop))

get_query_type(query) ==
    LET u == Strip(query)
    IN  IF u # <<>> /\ (IsKw(u[1], "select") \/ IsKw(u[1], "with")) THEN "SELECT"
        ELSE IF u # <<>> /\ IsKw(u[1], "insert") THEN "INSERT"
        ELSE IF u # <<>> /\ IsKw(u[1], "update") THEN "UPDATE"
        ELSE IF u # <<>> /\ IsKw(u[1], "delete") THEN "DELETE"
        ELSE "UNKNOWN"

JoinPrefixes == {"inner", "left", "right", "full", "cross"}
ClauseKeywords == {"join", "where", "group", "order", "limit"}

IdentAt(q, j) == j <= Len(q) /\ q[j] \notin IdentStartStop

\* JOIN\s+<identifier> at k
JoinKwAt(q, k) ==
    /\ k + 1 <= Len(q) /\ IsKw(q[k], "join") /\ q[k + 1] = Blank
    /\ IdentAt(q, SkipWS(q, k + 1))

\* the join pattern can start at k: at the JOIN itself or at its prefix word
JoinStartAt(q, k) ==
    \/ JoinKwAt(q, k)
    \/ /\ Lower(q[k]) \in JoinPrefixes
       /\ k + 1 <= Len(q) /\ q[k + 1] = Blank
       /\ JoinKwAt(q, SkipWS(q, k + 1))

\* (?=\s+(?:JOIN|WHERE|GROUP|ORDER|LIMIT|$)) at e
ClauseAhead(q, e, kws) ==
    /\ e <= Len(q) /\ q[e] = Blank
    /\ \/ SkipWS(q, e) > Len(q)
       \/ Lower(q[SkipWS(q, e)]) \in kws

\* one match of join_pattern starting at k: the descriptor and where it ends
JoinMatch(q, k) ==
    LET j == IF JoinKwAt(q, k) THEN k ELSE SkipWS(q, k + 1)
        tb == SkipWS(q, j + 1)
        te == RunEnd(q, tb, IdentStop)
        a0 == SkipWS(q, te)
        hasAs == /\ a0 + 1 <= Len(q) /\ IsKw(q[a0], "as") /\ q[a0 + 1] = Blank
                 /\ IdentAt(q, SkipWS(q, a0 + 1))
        ab == SkipWS(q, a0 + 1)
        o0 == IF hasAs THEN SkipWS(q, ab + 1) ELSE a0
        cb == SkipWS(q, o0 + 1)
        ends == {e \in (cb + 1)..Len(q) : ClauseAhead(q, e, ClauseKeywords)}
        hasOn == /\ o0 + 1 <= Len(q) /\ IsKw(q[o0], "on") /\ q[o0 + 1] = Blank
                 /\ cb <= Len(q)
                 /\ ends # {}
    IN  [join |-> [type |-> SubSeq(q, k, j),
                   table |-> SubSeq(q, tb, te - 1),
                   alias |-> IF hasAs THEN <<q[ab]>> ELSE <<>>,
                   condition |-> IF hasOn THEN Strip(SubSeq(q, cb, Min(ends) - 1))
                                 ELSE <<>>],
         end |-> IF hasOn THEN Min(ends) ELSE o0]

RECURSIVE FindJoins(_, _)
FindJoins(q, i) ==
    LET starts == {k \in i..Len(q) : JoinStartAt(q, k)}
    IN  IF starts = {} THEN <<>>
        ELSE LET m == JoinMatch(q, Min(starts))
             IN  <<m.join>> \o FindJoins(q, m.end)

extract_joins(query) == FindJoins(query, 1)

\* self.aggregate_functions is a set of strings: the order in which a process
\* iterates it follows from the hash seed the interpreter draws at start-up.
\* The orders of the model: one and its reverse.
DefaultOrder == <<"count", "sum", "avg", "min", "max">>
ReverseOrder == <<"max", "min", "avg", "sum", "count">>
HashOrders == {DefaultOrder, ReverseOrder}

\* the vocabulary, in the order this process iterates the set
AggregateFunctions == hash_order

\* re.search(rf'\b{FUNC}\s*\(', query.upper())
CallsFunction(q, func) ==
    \E k \in 1..Len(q) :
        /\ Lower(q[k]) = func
        /\ SkipWS(q, k + 1) <= Len(q) /\ q[SkipWS(q, k + 1)] = "("

extract_aggregations(query) ==
    SelectSeq(AggregateFunctions, LAMBDA f : CallsFunction(query, f))

\* re.search(r'\bWITH\s+\w+\s+AS\s*\(')
has_cte(q) ==
    \E k \in 1..Len(q) :
        /\ IsKw(q[k], "with") /\ k + 4 <= Len(q) /\ q[k + 1] = Blank
        /\ LET w == SkipWS(q, k + 1)
               a == SkipWS(q, w + 1)
           IN  /\ w <= Len(q) /\ IsWord(q[w])
               /\ w + 1 <= Len(q) /\ q[w + 1] = Blank
               /\ a <= Len(q) /\ IsKw(q[a], "as")
               /\ SkipWS(q, a + 1) <= Len(q) /\ q[SkipWS(q, a + 1)] = "("

count_subqueries(q) ==
    LET select_count == Cardinality({k \in 1..Len(q) : IsKw(q[k], "select")})
    IN  IF select_count - 1 > 0 THEN select_count - 1 ELSE 0

\* re.search(r'\bGROUP\s+BY\s+(.+?)(?=\s+(?:HAVING|ORDER|LIMIT|$))'): the body
\* ends before blanks that are followed by one of the keywords or by the end
\* of the text; a text that ends right after the body gives no match
GroupByEnds == {"having", "order", "limit"}

GroupByBody(q, k) ==
    LET by == SkipWS(q, k + 1)
        b == SkipWS(q, by + 1)
        ends == {e \in (b + 1)..Len(q) : ClauseAhead(q, e, GroupByEnds)}
    IN  IF /\ IsKw(q[k], "group") /\ k + 1 <= Len(q) /\ q[k + 1] = Blank
           /\ by + 1 <= Len(q) /\ IsKw(q[by], "by") /\ q[by + 1] = Blank
           /\ b <= Len(q) /\ ends # {}
        THEN <<SubSeq(q, b, Min(ends) - 1)>>
        ELSE <<>>

extract_group_by(q) ==
    LET starts == {k \in 1..Len(q) : GroupByBody(q, k) # <<>>}
    IN  IF starts = {} THEN <<>>
        ELSE LET cols == SplitOn(GroupByBody(q, Min(starts))[1], ",")
             IN  [i \in 1..Len(cols) |-> Strip(cols[i])]

ComparisonOps == {"=", ">", "<"}

\* the WHERE clause of the parsed statement: for each comparison its first
\* identifier (sqlparse's Comparison / Identifier grouping); list(set(...))
extract_filter_columns(q) ==
    LET ws == {k \in 1..Len(q) : IsKw(q[k], "where")}
    IN  IF ws = {} THEN {}
        ELSE {q[k] : k \in {x \in (Min(ws) + 1)..Len(q) :
                  /\ IdentAt(q, x) /\ q[x - 1] = Blank
                  /\ SkipWS(q, x + 1) <= Len(q)
                  /\ q[SkipWS(q, x + 1)] \in ComparisonOps}}

QueryPattern(query_data) ==
    [query_id |-> query_data.queryid,
     query_type |-> get_query_type(query_data.query),
     tables_used |-> extract_tables(query_data.query),
     joins |-> extract_joins(query_data.query),
     aggregations |-> extract_aggregations(query_data.query),
     filter_columns |-> extract_filter_columns(query_data.query),
     cte_usage |-> has_cte(query_data.query),
     subqueries_count |-> count_subqueries(query_data.query),
     group_by_columns |-> extract_group_by(query_data.query),
     run_quantity |-> query_data.runquantity,
     execution_time |-> query_data.executiontime]

\* sqlparse.parse(query_text)[0] raises IndexError on the empty text; the
\* exception is caught and None (<<>>) returned
analyze_single_query(query_data) ==
    IF query_data.query = <<>> THEN <<>> ELSE <<QueryPattern(query_data)>>

analyze_queries(qs) ==
    ConcatAll([k \in 1..Len(qs) |-> analyze_single_query(qs[k])])

\* a defaultdict(int) is a function from its keys; d[k] += n
Bump(d, k, n) ==
    [x \in DOMAIN d \cup {k} |-> (IF x \in DOMAIN d THEN d[x] ELSE 0)
                                  + (IF x = k THEN n ELSE 0)]

\* for k in S: d[k] += n    (S a set)
BumpAll(d, S, n) ==
    [x \in DOMAIN d \cup S |-> (IF x \in DOMAIN d THEN d[x] ELSE 0)
                                + (IF x \in S THEN n ELSE 0)]

\* for k in seq: d[key(k)] += n
RECURSIVE BumpSeq(_, _, _)
BumpSeq(d, ks, n) ==
    IF ks = <<>> THEN d ELSE BumpSeq(Bump(d, ks[1], n), Tail(ks), n)

EmptyDict == [x \in {} |-> 0]

RECURSIVE SumSeq(_)
SumSeq(ns) == IF ns = <<>> THEN 0 ELSE ns[1] + SumSeq(Tail(ns))

RECURSIVE SumValues(_)
SumValues(d) ==
    IF DOMAIN d = {} THEN 0
    ELSE LET k == CHOOSE x \in DOMAIN d : TRUE
         IN  d[k] + SumValues([x \in DOMAIN d \ {k} |-> d[x]])

HIGH_FREQUENCY_THRESHOLD == 100

\* variant of the loop body: the table histogram weighted once per mention,
\* the joined tables being counted again
AccumulatePattern_PerMention(stats, p) ==
    [stats EXCEPT
        !.query_types = Bump(@, p.query_type, 1),
        !.most_used_tables =
            BumpSeq(BumpAll(@, p.tables_used, p.run_quantity),
                    [i \in 1..Len(p.joins) |-> p.joins[i].table], p.run_quantity),
        !.most_used_filter_columns = BumpAll(@, p.filter_columns, p.run_quantity),
        !.most_used_group_by_columns = BumpSeq(@, p.group_by_columns, p.run_quantity),
        !.join_patterns =
            BumpSeq(@, [i \in 1..Len(p.joins) |-> p.joins[i].type], 1),
        !.aggregation_usage = BumpSeq(@, p.aggregations, 1),
        !.high_frequency_queries =
            IF p.run_quantity > HIGH_FREQUENCY_THRESHOLD
            THEN Append(@, [query_id |-> p.query_id,
                            run_quantity |-> p.run_quantity,
                            execution_time |-> p.execution_time])
            ELSE @]

\* variant: the join-type histogram weighted by the run quantity
CountJoinTypes_Weighted(join_patterns, p) ==
    BumpSeq(join_patterns, [i \in 1..Len(p.joins) |-> p.joins[i].type], p.run_quantity)

\* for join in pattern.joins: stats['join_patterns'][join['type']] += 1
CountJoinTypes(join_patterns, p) ==
    BumpSeq(join_patterns, [i \in 1..Len(p.joins) |-> p.joins[i].type], 1)

\* the loop body of get_query_statistics for one pattern
AccumulatePattern(stats, p) ==
    [stats EXCEPT
        !.query_types = Bump(@, p.query_type, 1),
        !.most_used_tables = BumpAll(@, p.tables_used, p.run_quantity),
        !.most_used_filter_columns = BumpAll(@, p.filter_columns, p.run_quantity),
        !.most_used_group_by_columns = BumpSeq(@, p.group_by_columns, p.run_quantity),
        !.join_patterns = CountJoinTypes(@, p),
        !.aggregation_usage = BumpSeq(@, p.aggregations, 1),
        !.high_frequency_queries =
            IF p.run_quantity > HIGH_FREQUENCY_THRESHOLD
            THEN Append(@, [query_id |-> p.query_id,
                            run_quantity |-> p.run_quantity,
                            execution_time |-> p.execution_time])
            ELSE @]

RECURSIVE AccumulateAll(_, _)
AccumulateAll(stats, ps) ==
    IF ps = <<>> THEN stats
    ELSE AccumulateAll(AccumulatePattern(stats, ps[1]), Tail(ps))

\* a quotient a / b of the source is kept as the fraction [num, den]
Fraction(a, b) == [num |-> a, den |-> b]
Zero == Fraction(0, 1)

\* variant: the average taken without the guard on an empty pattern list
AvgExecutionTime_Unguarded(ps) ==
    IF Len(ps) = 0
    THEN [raised |-> TRUE, value |-> Zero]
    ELSE [raised |-> FALSE,
          value |-> Fraction(SumSeq([i \in 1..Len(ps) |-> ps[i].execution_time]),
                             Len(ps))]

\* sum(execution_time) / len(patterns) if patterns else 0
AvgExecutionTime(ps) ==
    IF ps # <<>>
    THEN [raised |-> FALSE,
          value |-> Fraction(SumSeq([i \in 1..Len(ps) |-> ps[i].execution_time]),
                             Len(ps))]
    ELSE [raised |-> FALSE, value |-> Zero]

\* raised: the call ended in an exception (ZeroDivisionError)
get_query_statistics(ps) ==
    AccumulateAll(
        [raised |-> AvgExecutionTime(ps).raised,
         total_queries |-> Len(ps),
         query_types |-> EmptyDict,
         most_used_tables |-> EmptyDict,
         join_patterns |-> EmptyDict,
         aggregation_usage |-> EmptyDict,
         most_used_filter_columns |-> EmptyDict,
         most_used_group_by_columns |-> EmptyDict,
         cte_usage |-> Cardinality({i \in 1..Len(ps) : ps[i].cte_usage}),
         avg_execution_time |-> AvgExecutionTime(ps).value,
         high_frequency_queries |-> <<>>],
        ps)

(***************************************************************************)
(* dashboard_utils.py: query coverage                                      *)
(***************************************************************************)
Quotes == {DQuote, Backtick}

\* re.sub removes the double quotes and backticks, then .strip().lower()
normalize(s) == LowerText(Strip(SelectSeq(s, LAMBDA a : a \notin Quotes)))

\* getattr(t, 'database', ''): a Table has no attribute of that name
TableDatabase(t) == <<>>

Dotted2(a, b) == a \o <<".">> \o b
Dotted3(a, b, c) == a \o <<".">> \o b \o <<".">> \o c

\* d[k] = v
Put(d, k, v) == [x \in DOMAIN d \cup {k} |-> IF x = k THEN v ELSE d[x]]

\* the keys one table adds to known_keys, later keys overwriting earlier ones
AddKnownKeys(known_keys, t) ==
    LET t_name == normalize(t.name)
        t_schema == normalize(t.schema)
        canon == IF t_schema # <<>> THEN Dotted2(t_schema, t_name) ELSE t_name
        db == normalize(TableDatabase(t))
        k1 == IF t_name # <<>> THEN Put(known_keys, t_name, canon) ELSE known_keys
        k2 == IF t_schema # <<>> /\ t_name # <<>>
              THEN Put(k1, Dotted2(t_schema, t_name), canon) ELSE k1
    IN  IF db # <<>> /\ t_schema # <<>> /\ t_name # <<>>
        THEN Put(k2, Dotted3(db, t_schema, t_name), canon) ELSE k2

RECURSIVE KnownKeys(_, _)
KnownKeys(known_keys, ts) ==
    IF ts = <<>> THEN known_keys
    ELSE KnownKeys(AddKnownKeys(known_keys, ts[1]), Tail(ts))

\* ref_re = r'\b(from|join)\s+([a-zA-Z0-9_\."]+)'
RefStop == Punct \ {".", DQuote}
CoverageRefs(text) == FindRefs(text, 1, RefStop, RefStop)

\* table, schema.table, db.schema.table: the last 1, 2 and 3 parts
all_forms(ref) ==
    LET parts == SelectSeq(SplitOn(normalize(ref), "."), LAMBDA x : x # <<>>)
        n == Len(parts)
    IN  (IF n >= 1 THEN <<parts[n]>> ELSE <<>>)
        \o (IF n >= 2 THEN <<Dotted2(parts[n - 1], parts[n])>> ELSE <<>>)
        \o (IF n >= 3 THEN <<Dotted3(parts[n - 2], parts[n - 1], parts[n])>> ELSE <<>>)

\* the bucket one reference is counted in: <<key>>, or <<>> when it is dropped
RefBucket(known_keys, ref) ==
    LET forms == all_forms(ref)
        hits == {i \in 1..Len(forms) : forms[i] \in DOMAIN known_keys}
    IN  IF hits # {} THEN <<known_keys[forms[Min(hits)]]>>
        ELSE IF Len(forms) >= 2 THEN <<forms[2]>>
        ELSE IF Len(forms) >= 1 THEN <<forms[1]>>
        ELSE <<>>

RECURSIVE CountRefs(_, _, _, _)
CountRefs(usage, known_keys, refs, runq) ==
    IF refs = <<>> THEN usage
    ELSE LET b == RefBucket(known_keys, refs[1])
         IN  CountRefs(IF b = <<>> THEN usage ELSE Bump(usage, b[1], runq),
                       known_keys, Tail(refs), runq)

RECURSIVE CountQueries(_, _, _)
CountQueries(usage, known_keys, qs) ==
    IF qs = <<>> THEN usage
    ELSE CountQueries(
             IF qs[1].query = <<>> THEN usage
             ELSE CountRefs(usage, known_keys, CoverageRefs(qs[1].query),
                            qs[1].runquantity),
             known_keys, Tail(qs))

MaxValue(d) == IF DOMAIN d = {} THEN 0 ELSE Max(Range(d))

analyze_query_coverage(ts, qs) ==
    IF qs = <<>>
    THEN [table_usage |-> [k \in {LowerText(ts[i].name) : i \in 1..Len(ts)} |-> 0],
          unused_tables |-> {ts[i].name : i \in 1..Len(ts)},
          most_queried_count |-> 0]
    ELSE LET known_keys == KnownKeys(EmptyDict, ts)
             usage == CountQueries([c \in Range(known_keys) |-> 0], known_keys, qs)
         IN  [table_usage |-> usage,
              unused_tables |-> {k \in Range(known_keys) : usage[k] = 0},
              most_queried_count |-> MaxValue(usage)]

(***************************************************************************)
(* analyzer.py: the schema and query sections of analyze_input_data        *)
(***************************************************************************)
\* column.data_type.split('(')[0].lower()
BaseType(data_type) == LowerText(SplitOn(data_type, "(")[1])

get_table_stats(ts) ==
    [total_tables |-> Len(ts),
     total_columns |-> SumSeq([i \in 1..Len(ts) |-> Len(ts[i].columns)]),
     tables_by_schema |->
         BumpSeq(EmptyDict,
                 [i \in 1..Len(ts) |-> Dotted2(ts[i].catalog, ts[i].schema)], 1),
     column_types_distribution |->
         BumpSeq(EmptyDict,
                 ConcatAll([i \in 1..Len(ts) |->
                     [j \in 1..Len(ts[i].columns) |->
                         BaseType(ts[i].columns[j].data_type)]]), 1)]

\* analysis_result['schema_analysis'] for the parsed tables ts
SchemaAnalysisOf(ts) ==
    [tables |-> [i \in 1..Len(ts) |->
                    [full_name |-> Dotted3(ts[i].catalog, ts[i].schema, ts[i].name),
                     catalog |-> ts[i].catalog,
                     schema |-> ts[i].schema,
                     name |-> ts[i].name,
                     columns |-> [j \in 1..Len(ts[i].columns) |->
                                     [name |-> ts[i].columns[j].name,
                                      type |-> ts[i].columns[j].data_type]]]],
     statistics |-> get_table_stats(ts)]

SchemaAnalysis(ddls) == SchemaAnalysisOf(parse_ddl_statements(ddls))

\* analysis_result['query_analysis'] for the query patterns ps
QueryAnalysisOf(ps) ==
    [patterns |-> [i \in 1..Len(ps) |->
                      [query_id |-> ps[i].query_id,
                       type |-> ps[i].query_type,
                       tables_used |-> ps[i].tables_used,
                       joins |-> ps[i].joins,
                       aggregations |-> ps[i].aggregations,
                       cte_usage |-> ps[i].cte_usage,
                       run_quantity |-> ps[i].run_quantity,
                       execution_time |-> ps[i].execution_time]],
     statistics |-> get_query_statistics(ps)]

QueryAnalysis(qs) == QueryAnalysisOf(analyze_queries(qs))

\* database_stats: keys is the set of keys the dict holds
NoDatabaseStats ==
    [keys |-> {}, error |-> "", overview |-> [driver |-> "unknown"],
     table_statistics |-> <<>>]

ErrorStats(message) == [NoDatabaseStats EXCEPT !.keys = {"error"}, !.error = message]

Get(d, k, default) == IF k \in DOMAIN d THEN d[k] ELSE default

prepare_llm_input(analysis) ==
    [optimization_context |->
         [database_type |-> IF "overview" \in analysis.database_stats.keys
                            THEN analysis.database_stats.overview.driver
                            ELSE "unknown",
          total_tables |-> Len(analysis.schema_analysis.tables),
          total_queries |-> Len(analysis.query_analysis.patterns)],
     optimization_opportunities |->
         IF Get(analysis.query_analysis.statistics.join_patterns, <<"JOIN">>, 0) > 0
         THEN <<"denormalization">> ELSE <<>>,
     performance_issues |->
         IF analysis.query_analysis.statistics.high_frequency_queries # <<>>
         THEN <<"high_frequency_queries">> ELSE <<>>]

\* step 4: analysis_result['recommendations_input'] = _prepare_llm_input(...)
WithRecommendationsInput(analysis) ==
    [schema_analysis |-> analysis.schema_analysis,
     query_analysis |-> analysis.query_analysis,
     database_stats |-> analysis.database_stats,
     recommendations_input |-> prepare_llm_input(analysis)]

\* analysis_result once steps 1, 2 and 4 ran, with the given database_stats
AnalysisResult(ddls, qs, database_stats) ==
    WithRecommendationsInput([schema_analysis |-> SchemaAnalysis(ddls),
                              query_analysis |-> QueryAnalysis(qs),
                              database_stats |-> database_stats])

(***************************************************************************)
(* report_creator.py                                                       *)
(***************************************************************************)
\* sorted(items, key, reverse=True) is stable: the order of the indexes
RECURSIVE OrderDesc(_, _)
OrderDesc(keys, rest) ==
    IF rest = {} THEN <<>>
    ELSE LET m == Max({keys[i] : i \in rest})
             i == Min({j \in rest : keys[j] = m})
         IN  <<i>> \o OrderDesc(keys, rest \ {i})

SortDesc(items, keys) ==
    LET o == OrderDesc(keys, 1..Len(items))
    IN  [k \in 1..Len(items) |-> items[o[k]]]

Take(items, n) == SubSeq(items, 1, IF Len(items) < n THEN Len(items) ELSE n)

SLOW_QUERY_SECONDS == 30
HIGH_VOLUME_RUNS == 1000
HIGH_VOLUME_DETAILS == 5

IsSlow(q) == q.execution_time > SLOW_QUERY_SECONDS

\* variant: the volume threshold taken inclusively
IsHighVolume_Inclusive(q) == q.run_quantity >= HIGH_VOLUME_RUNS

IsHighVolume(q) == q.run_quantity > HIGH_VOLUME_RUNS

\* the entries of a bottleneck's details for the queries qs
VolumeDetails(qs) ==
    [i \in 1..Len(qs) |->
        [query_id |-> qs[i].query_id,
         run_quantity |-> qs[i].run_quantity,
         execution_time |-> qs[i].execution_time,
         total_time |-> qs[i].execution_time * qs[i].run_quantity]]

\* variant: the executions of the listed queries only
TotalExecutions_Listed(high_volume_queries) ==
    SumSeq([i \in 1..Len(Take(high_volume_queries, HIGH_VOLUME_DETAILS)) |->
               high_volume_queries[i].run_quantity])

\* sum(q.get('run_quantity', 0) for q in high_volume_queries)
TotalExecutions(high_volume_queries) ==
    SumSeq([i \in 1..Len(high_volume_queries) |-> high_volume_queries[i].run_quantity])

\* variant: the details ranked by their total time
HighVolumeDetails_ByTotalTime(high_volume_queries) ==
    Take(VolumeDetails(
             SortDesc(high_volume_queries,
                      [i \in 1..Len(high_volume_queries) |->
                          high_volume_queries[i].execution_time
                          * high_volume_queries[i].run_quantity])),
         HIGH_VOLUME_DETAILS)

\* sorted(high_volume_queries, key=run_quantity, reverse=True)[:5]
HighVolumeDetails(high_volume_queries) ==
    Take(VolumeDetails(
             SortDesc(high_volume_queries,
                      [i \in 1..Len(high_volume_queries) |->
                          high_volume_queries[i].run_quantity])),
         HIGH_VOLUME_DETAILS)

identify_bottlenecks(data) ==
    LET query_patterns == data.query_analysis.patterns
        slow_queries == SelectSeq(query_patterns, IsSlow)
        high_volume_queries == SelectSeq(query_patterns, IsHighVolume)
        slow ==
            [type |-> "slow_queries", severity |-> "high",
             count |-> Len(slow_queries),
             details |->
                 LET sorted == SortDesc(slow_queries,
                                   [i \in 1..Len(slow_queries) |->
                                       slow_queries[i].execution_time
                                       * slow_queries[i].run_quantity])
                 IN  [i \in 1..Len(sorted) |->
                         [query_id |-> sorted[i].query_id,
                          execution_time |-> sorted[i].execution_time,
                          run_quantity |-> sorted[i].run_quantity,
                          impact_score |-> sorted[i].execution_time
                                           * sorted[i].run_quantity]]]
        high ==
            [type |-> "high_volume_queries", severity |-> "medium",
             count |-> Len(high_volume_queries),
             total_executions |-> TotalExecutions(high_volume_queries),
             details |-> HighVolumeDetails(high_volume_queries)]
    IN  (IF slow_queries # <<>> THEN <<slow>> ELSE <<>>)
        \o (IF high_volume_queries # <<>> THEN <<high>> ELSE <<>>)

\* f"{n:,}": the decimal groups of three digits, separated by commas
RECURSIVE FormatThousands(_)
FormatThousands(n) ==
    IF n < 1000 THEN <<n>> ELSE FormatThousands(n \div 1000) \o <<n % 1000>>

GiB == 1073741824

\* round(size_bytes / (1024 ** 3), 2), in hundredths of a GB
RoundGB(size_bytes) == (size_bytes * 100 + (GiB \div 2)) \div GiB

get_database_profile(data) ==
    LET table_stats == data.database_stats.table_statistics
        total_rows == SumSeq([i \in 1..Len(table_stats) |-> table_stats[i].row_count])
        total_size_bytes ==
            SumSeq([i \in 1..Len(table_stats) |-> table_stats[i].size_bytes])
    IN  [database_type |-> IF "overview" \in data.database_stats.keys
                           THEN data.database_stats.overview.driver ELSE "unknown",
         table_count |-> Len(table_stats),
         total_rows |-> FormatThousands(total_rows),
         total_rows_numeric |-> total_rows,
         total_size_gb |-> RoundGB(total_size_bytes),
         total_columns |-> data.schema_analysis.statistics.total_columns,
         column_distribution |->
             data.schema_analysis.statistics.column_types_distribution,
         largest_table |->
             IF table_stats = <<>> THEN <<>>
             ELSE <<[name |-> table_stats[1].table_name,
                     rows |-> FormatThousands(table_stats[1].row_count),
                     rows_numeric |-> table_stats[1].row_count,
                     size_gb |-> RoundGB(table_stats[1].size_bytes)]>>]

\* variant: joins reaching exactly half the query count already count as many
Archetype_AtLeastHalf(num_tables, total_joins, total_queries) ==
    IF num_tables = 1 THEN "single_big_table"
    ELSE IF num_tables > 1 /\ 2 * total_joins >= total_queries
         THEN "normalized_multitable"
    ELSE IF num_tables > 1 THEN "denormalized_multitable"
    ELSE "unknown"

\* the archetype rule, shared by create_concise_report_for_agent and
\* QueryAnalyzer.detect_schema_archetype; total_joins > total_queries / 2 is a
\* comparison of an integer with a float quotient
Archetype(num_tables, total_joins, total_queries) ==
    IF num_tables = 1 THEN "single_big_table"
    ELSE IF num_tables > 1 /\ 2 * total_joins > total_queries
         THEN "normalized_multitable"
    ELSE IF num_tables > 1 THEN "denormalized_multitable"
    ELSE "unknown"

create_concise_report_for_agent(data) ==
    LET query_stats == data.query_analysis.statistics
        schema_tables == data.schema_analysis.tables
    IN  [source_schema_archetype |->
             Archetype(Len(schema_tables), SumValues(query_stats.join_patterns),
                       query_stats.total_queries),
         workload_profile |->
             [top_group_by_columns |-> query_stats.most_used_group_by_columns,
              top_filter_columns |-> query_stats.most_used_filter_columns,
              top_joined_tables |-> query_stats.most_used_tables,
              top_aggregated_functions |-> query_stats.aggregation_usage],
         source_tables |->
             [i \in 1..Len(schema_tables) |->
                 [name |-> schema_tables[i].name,
                  column_count |-> Len(schema_tables[i].columns),
                  columns |-> schema_tables[i].columns]]]

detect_schema_archetype(schema_info, query_stats) ==
    Archetype(schema_info.total_tables, SumValues(query_stats.join_patterns),
              query_stats.total_queries)

MV_MIN_RUNS == 500
MV_MIN_GROUP == 2
MV_HIGH_SAVINGS == 5000
MV_TOP == 3

\* variant: the run threshold taken inclusively
IsMVPattern_Inclusive(p) == p.run_quantity >= MV_MIN_RUNS

IsMVPattern(p) == p.run_quantity > MV_MIN_RUNS

\* the keys of aggregation_groups in insertion order; a key is the sorted tuple
\* of a pattern's aggregations, kept here as the set of its members
RECURSIVE DistinctKeys(_, _)
DistinctKeys(ps, seen) ==
    IF ps = <<>> THEN <<>>
    ELSE LET k == Range(ps[1].aggregations)
         IN  IF k \in seen THEN DistinctKeys(Tail(ps), seen)
             ELSE <<k>> \o DistinctKeys(Tail(ps), seen \cup {k})

identify_mv_candidates(patterns) ==
    LET frequent == SelectSeq(patterns, IsMVPattern)
        keys == DistinctKeys(frequent, {})
        Group(k) == {i \in 1..Len(frequent) : Range(frequent[i].aggregations) = k}
        Volume(k) == SumSeq([i \in 1..Len(frequent) |->
                               IF i \in Group(k) THEN frequent[i].run_quantity ELSE 0])
        IsCandidate(k) == Cardinality(Group(k)) >= MV_MIN_GROUP
        candidates ==
            LET ks == SelectSeq(keys, IsCandidate)
            IN  [i \in 1..Len(ks) |->
                    [aggregations |-> ks[i],
                     query_count |-> Cardinality(Group(ks[i])),
                     total_executions |-> Volume(ks[i]),
                     avg_execution_time |->
                         Fraction(SumSeq([j \in 1..Len(frequent) |->
                                             IF j \in Group(ks[i])
                                             THEN frequent[j].execution_time ELSE 0]),
                                  Cardinality(Group(ks[i]))),
                     potential_savings |->
                         IF Volume(ks[i]) > MV_HIGH_SAVINGS THEN "high" ELSE "medium"]]
    IN  Take(SortDesc(candidates,
                      [i \in 1..Len(candidates) |-> candidates[i].total_executions]),
             MV_TOP)

generate_recommendations(data) ==
    <<"partitioning">>
    \o (IF identify_mv_candidates(data.query_analysis.patterns) # <<>>
        THEN <<"materialized_views">> ELSE <<>>)
    \o <<"indexing", "compression">>

TOP_AGGREGATIONS == 5

\* aggregation_patterns[agg] += run_quantity, over the patterns in order
RECURSIVE AggregationVolumes(_, _)
AggregationVolumes(d, ps) ==
    IF ps = <<>> THEN d
    ELSE AggregationVolumes(BumpSeq(d, ps[1].aggregations, ps[1].run_quantity),
                            Tail(ps))

\* the keys of aggregation_patterns in insertion order
RECURSIVE FirstSeen(_, _)
FirstSeen(ks, seen) ==
    IF ks = <<>> THEN <<>>
    ELSE IF ks[1] \in seen THEN FirstSeen(Tail(ks), seen)
    ELSE <<ks[1]>> \o FirstSeen(Tail(ks), seen \cup {ks[1]})

\* dict(sorted(aggregation_patterns.items(), key=value, reverse=True)[:5])
top_aggregations(patterns) ==
    LET volumes == AggregationVolumes(EmptyDict, patterns)
        keys == FirstSeen(ConcatAll([i \in 1..Len(patterns) |->
                                        patterns[i].aggregations]), {})
        kept == Take(SortDesc(keys, [i \in 1..Len(keys) |-> volumes[keys[i]]]),
                     TOP_AGGREGATIONS)
    IN  [k \in Range(kept) |-> volumes[k]]

extract_key_patterns(data) ==
    LET patterns == data.query_analysis.patterns
        query_stats == data.query_analysis.statistics
    IN  [materialized_view_candidates |-> identify_mv_candidates(patterns),
         top_aggregations |-> top_aggregations(patterns),
         total_query_volume |->
             SumSeq([i \in 1..Len(patterns) |-> patterns[i].run_quantity]),
         avg_execution_time |-> query_stats.avg_execution_time,
         cte_usage_percent |->
             IF patterns # <<>>
             THEN Fraction(query_stats.cte_usage * 100, Len(patterns)) ELSE Zero,
         join_frequency |-> query_stats.join_patterns]

determine_target_schema_type(archetype, workload) ==
    IF archetype = "single_big_table"
    THEN IF Cardinality(DOMAIN workload.top_group_by_columns) >= 3
         THEN "star_schema" ELSE "optimized_single_table"
    ELSE IF archetype = "normalized_multitable"
    THEN IF SumValues(workload.top_joined_tables) > 10000
         THEN "denormalized_fact_table" ELSE "refined_star_schema"
    ELSE "consolidated_star_schema"

ImplementationPriority ==
    <<"1. Date-based partitioning (High Impact, Medium Effort)",
      "2. Materialized views for aggregations (High Impact, Low Effort)",
      "3. Composite indexes on filter columns (Medium Impact, Low Effort)",
      "4. Storage format optimization (Medium Impact, Medium Effort)">>

create_optimization_report(data) ==
    LET db_profile == get_database_profile(data)
        bottlenecks == identify_bottlenecks(data)
        agent_input == create_concise_report_for_agent(data)
        table_count == db_profile.table_count
    IN  [executive_summary |->
             [database_size |-> db_profile.total_size_gb,
              total_tables |-> table_count,
              total_rows |-> db_profile.total_rows,
              query_volume_per_day |->
                  SumSeq([i \in 1..Len(bottlenecks) |->
                             IF bottlenecks[i].type = "high_volume_queries"
                             THEN bottlenecks[i].total_executions ELSE 0]),
              critical_issues |->
                  Cardinality({i \in 1..Len(bottlenecks) :
                                  bottlenecks[i].severity = "high"}),
              optimization_potential |->
                  IF table_count = 1 THEN "High"
                  ELSE IF table_count <= 5 THEN "Medium" ELSE "Moderate"],
         database_profile |-> db_profile,
         performance_bottlenecks |-> bottlenecks,
         schema_insights |->
             IF data.schema_analysis.tables = <<>> THEN EmptyDict
             ELSE [total_columns |-> Len(data.schema_analysis.tables[1].columns)],
         query_patterns |-> extract_key_patterns(data),
         recommendations |-> generate_recommendations(data),
         implementation_priority |-> ImplementationPriority,
         agent_input |-> agent_input,
         design_document |->
             [target_schema |->
                  determine_target_schema_type(agent_input.source_schema_archetype,
                                               agent_input.workload_profile)]]

\* query_text.upper().count('JOIN') on one atom: the atoms of the model that
\* hold the letters JOIN, in either case, hold them once (join, joined_at)
JoinsInAtom(a) == IF Lower(a) \in {"join", "joined_at"} THEN 1 ELSE 0

\* query_text.upper().count('JOIN')
CountJOIN(query_text) ==
    SumSeq([i \in 1..Len(query_text) |-> JoinsInAtom(query_text[i])])

COMPLEX_JOIN_COUNT == 3
COMPLEX_JOINS_HIGH == 1000
TOTAL_JOINS_MEDIUM == 5000

\* variant: a query of exactly 3 JOINs counted as complex
IsComplexJoin_Inclusive(join_count) == join_count >= COMPLEX_JOIN_COUNT

IsComplexJoin(join_count) == join_count > COMPLEX_JOIN_COUNT

\* dashboard_utils._identify_denormalization_opportunities; the join types
\* tell INNER and LEFT apart by the word before JOIN
identify_denormalization_opportunities(ts, qs) ==
    IF Len(ts) <= 1
    THEN [opportunity_level |-> "low",
          reason |-> "Single table schema - already denormalized",
          recommendations |-> <<>>]
    ELSE LET total_joins ==
                 SumSeq([i \in 1..Len(qs) |-> CountJOIN(qs[i].query) * qs[i].runquantity])
             complex_joins ==
                 SumSeq([i \in 1..Len(qs) |->
                            IF IsComplexJoin(CountJOIN(qs[i].query))
                            THEN qs[i].runquantity ELSE 0])
             Runs(word) ==
                 SumSeq([i \in 1..Len(qs) |->
                            IF \E k \in 1..(Len(qs[i].query) - 2) :
                                   /\ Lower(qs[i].query[k]) = word
                                   /\ qs[i].query[k + 1] = Blank
                                   /\ Lower(qs[i].query[k + 2]) = "join"
                            THEN qs[i].runquantity ELSE 0])
         IN  [opportunity_level |->
                  IF complex_joins > COMPLEX_JOINS_HIGH THEN "high"
                  ELSE IF total_joins > TOTAL_JOINS_MEDIUM THEN "medium"
                  ELSE "low",
              total_join_operations |-> total_joins,
              complex_join_queries |-> complex_joins,
              join_type_distribution |->
                  [w \in {v \in {"inner", "left"} : Runs(v) > 0} |-> Runs(w)],
              recommendations |->
                  IF complex_joins > COMPLEX_JOINS_HIGH
                  THEN <<"denormalize frequently joined tables",
                         "pre-join common query patterns", "aggregate tables">>
                  ELSE IF total_joins > TOTAL_JOINS_MEDIUM
                  THEN <<"selective denormalization", "analyze frequent join pairs">>
                  ELSE <<"maintain normalized structure">>]

\* any(pattern in column.name.lower() for pattern in date_patterns) or
\* any(dt in column.data_type.lower() for dt in ['date', 'time', 'timestamp']):
\* the column names and types of the model that hold one of these words
IsTemporalColumn(column) ==
    \/ \E i \in 1..Len(column.name) :
           Lower(column.name[i]) \in {"created", "flightdate", "date"}
    \/ \E i \in 1..Len(column.data_type) :
           Lower(column.data_type[i]) \in {"date", "timestamp"}

\* any(pattern in column.name.lower() for pattern in category_patterns)
IsCategoryColumn(column) ==
    \E i \in 1..Len(column.name) : Lower(column.name[i]) \in {"status", "type"}

PartitioningOf(column) ==
    [column |-> column.name, type |-> column.data_type,
     strategy |-> IF IsTemporalColumn(column) THEN "RANGE partitioning by date/time"
                  ELSE "LIST partitioning by category"]

IsPartitionable(column) == IsTemporalColumn(column) \/ IsCategoryColumn(column)

\* dashboard_utils._identify_partitioning_candidates: the tables that have a
\* temporal or categorical column, with those columns
RECURSIVE identify_partitioning_candidates(_)
identify_partitioning_candidates(ts) ==
    IF ts = <<>> THEN <<>>
    ELSE (IF SelectSeq(ts[1].columns, IsPartitionable) # <<>>
          THEN <<[table |-> IF ts[1].schema # <<>>
                            THEN Dotted2(ts[1].schema, ts[1].name) ELSE ts[1].name,
                  candidates |->
                      [i \in 1..Len(SelectSeq(ts[1].columns, IsPartitionable)) |->
                          PartitioningOf(SelectSeq(ts[1].columns, IsPartitionable)[i])]]>>
          ELSE <<>>)
         \o identify_partitioning_candidates(Tail(ts))

\* create_insights_report: the sections built from the parsed tables and
\* the query coverage
create_insights_report(ddl_statements, qs) ==
    LET ts == parse_ddl_statements(ddl_statements)
        stats == get_table_stats(ts)
    IN  IF ts = <<>>
        THEN [total_columns |-> 0, total_tables |-> 0, tables |-> <<>>,
              column_types_distribution |-> EmptyDict,
              index_coverage |->
                  [indexed_tables |-> 0, total_indexes |-> 0, coverage_percent |-> 0,
                   recommendations |-> "No tables found in schema."],
              data_quality |->
                  [nullable_columns_percent |-> 0, tables_without_pk |-> 0,
                   orphaned_tables |-> 0]]
        ELSE [total_columns |-> stats.total_columns,
              total_tables |-> Len(ts),
              tables |-> [i \in 1..Len(ts) |->
                             [name |-> IF ts[i].schema # <<>>
                                       THEN Dotted2(ts[i].schema, ts[i].name)
                                       ELSE ts[i].name,
                              full_name |-> Dotted3(ts[i].catalog, ts[i].schema, ts[i].name),
                              column_count |-> Len(ts[i].columns)]],
              column_types_distribution |-> stats.column_types_distribution,
              query_coverage |-> analyze_query_coverage(ts, qs),
              partitioning_candidates |-> identify_partitioning_candidates(ts),
              denormalization_opportunities |->
                  identify_denormalization_opportunities(ts, qs),
              statistics |-> stats]

(***************************************************************************)
(* analysis_report.py: the projection of a stored report for the charts.   *)
(* A dict is a function from its keys; d[k] on a missing key raises        *)
(* KeyError, d.get(k, default) does not.                                   *)
(***************************************************************************)
ExecutiveSummaryKeys ==
    <<"database_size", "total_rows", "query_volume_per_day", "critical_issues",
      "optimization_potential">>

\* the first element of ks that is not a key of d, <<>> when d has them all
RECURSIVE FirstMissing(_, _)
FirstMissing(d, ks) ==
    IF ks = <<>> THEN <<>>
    ELSE IF ks[1] \notin DOMAIN d THEN <<ks[1]>>
    ELSE FirstMissing(d, Tail(ks))

\* raw[section][k] for each k of ks, in order: the key of the first KeyError
MissingIn(raw, section, ks) ==
    IF section \notin DOMAIN raw THEN <<section>>
    ELSE FirstMissing(raw[section], ks)

\* the subscripts of the viz_data literal, in evaluation order: the key of
\* the KeyError that ends the call, <<>> when every subscript succeeds
ProjectionKeyError(raw) ==
    LET steps ==
            <<MissingIn(raw, "executive_summary", ExecutiveSummaryKeys),
              MissingIn(raw, "database_profile", <<"column_distribution">>),
              MissingIn(raw, "schema_insights", <<"total_columns">>),
              MissingIn(raw, "query_patterns", <<"top_aggregations", "join_frequency">>),
              FirstMissing(raw, <<"recommendations", "implementation_priority">>),
              MissingIn(raw, "query_patterns", <<"materialized_view_candidates">>)>>
        failed == {i \in 1..Len(steps) : steps[i] # <<>>}
    IN  IF failed = {} THEN <<>> ELSE steps[Min(failed)]

\* next((b for b in bottlenecks if b.get('type') == bottleneck_type), None)
get_bottleneck_by_type(raw, bottleneck_type) ==
    LET bottlenecks == Get(raw, "performance_bottlenecks", <<>>)
        hits == {i \in 1..Len(bottlenecks) : bottlenecks[i].type = bottleneck_type}
    IN  IF hits = {} THEN <<>> ELSE <<bottlenecks[Min(hits)]>>

TOP_QUERIES == 5

TopQueriesOf(bottleneck) ==
    LET details == Take(bottleneck.details, TOP_QUERIES)
    IN  [i \in 1..Len(details) |->
            [id |-> details[i].query_id,
             executions |-> details[i].run_quantity,
             avg_time |-> details[i].execution_time]]

get_top_queries(raw) ==
    LET high_volume == get_bottleneck_by_type(raw, "high_volume_queries")
        slow_queries == get_bottleneck_by_type(raw, "slow_queries")
    IN  IF high_volume # <<>> THEN TopQueriesOf(high_volume[1])
        ELSE IF slow_queries # <<>> THEN TopQueriesOf(slow_queries[1])
        ELSE <<>>

get_total_executions(raw) ==
    LET high_volume == get_bottleneck_by_type(raw, "high_volume_queries")
    IN  IF high_volume # <<>> THEN high_volume[1].total_executions ELSE 0

\* rec['type'].replace('_', ' ').title()
TitleOf ==
    ("partitioning" :> "Partitioning") @@ ("materialized_views" :> "Materialized Views")
    @@ ("indexing" :> "Indexing") @@ ("compression" :> "Compression")

NoIndexCoverage ==
    [indexed_tables |-> 0, total_indexes |-> 0, coverage_percent |-> 0,
     recommendations |-> "No index data available"]

\* the schema_overview of the projection: the stored one, or, when it is
\* missing or empty, one rebuilt from schema_insights
SchemaOverviewOf(raw) ==
    LET stored == Get(raw, "schema_overview", EmptyDict)
        schema_insights == Get(raw, "schema_insights", EmptyDict)
    IN  IF DOMAIN stored # {} THEN stored
        ELSE [tables |-> Get(schema_insights, "tables", <<>>),
              index_coverage |-> Get(schema_insights, "index_coverage", NoIndexCoverage)]

Visualizations(raw) ==
    [executive_summary |->
         [metrics |->
              <<[label |-> "Database Size", value |-> raw.executive_summary.database_size],
                [label |-> "Total Rows", value |-> raw.executive_summary.total_rows],
                [label |-> "Daily Queries",
                 value |-> FormatThousands(raw.executive_summary.query_volume_per_day)],
                [label |-> "Critical Issues",
                 value |-> raw.executive_summary.critical_issues,
                 alert |-> raw.executive_summary.critical_issues > 0]>>,
          optimization_potential |-> raw.executive_summary.optimization_potential],
     column_distribution |->
         [labels |-> DOMAIN raw.database_profile.column_distribution,
          data |-> raw.database_profile.column_distribution,
          total_columns |-> raw.schema_insights.total_columns],
     query_performance |->
         [top_queries |-> get_top_queries(raw),
          total_executions |-> get_total_executions(raw)],
     aggregation_usage |->
         [labels |-> DOMAIN raw.query_patterns.top_aggregations,
          data |-> raw.query_patterns.top_aggregations],
     join_patterns |->
         [labels |-> DOMAIN raw.query_patterns.join_frequency,
          data |-> raw.query_patterns.join_frequency],
     recommendations |->
         [priority_matrix |->
              [i \in 1..Len(raw.recommendations) |-> TitleOf[raw.recommendations[i]]],
          implementation_order |-> raw.implementation_priority],
     materialized_views |->
         LET mvs == Take(raw.query_patterns.materialized_view_candidates, MV_TOP)
         IN  [i \in 1..Len(mvs) |->
                 [aggregations |-> mvs[i].aggregations,
                  executions |-> mvs[i].total_executions,
                  savings |-> mvs[i].potential_savings,
                  queries |-> mvs[i].query_count]]]

\* create_analysis_report on the row t of the tasks table (<<>> when there
\* is none): the status code and the body; an exception that is not an
\* HTTPException is answered with 500
create_analysis_report(t) ==
    IF t = <<>> THEN [code |-> 404, body |-> [detail |-> "Task not found"]]
    ELSE IF t.db_analysis_report = <<>> \/ DOMAIN t.db_analysis_report[1] = {}
    THEN [code |-> 200,
          body |-> [message |-> "Analysis report has not been generated yet."]]
    ELSE IF ProjectionKeyError(t.db_analysis_report[1]) # <<>>
    THEN [code |-> 500,
          body |-> [KeyError |-> ProjectionKeyError(t.db_analysis_report[1])[1]]]
    ELSE [code |-> 200,
          body |-> [raw_report |-> t.db_analysis_report[1],
                    schema_overview |-> SchemaOverviewOf(t.db_analysis_report[1]),
                    visualizations |-> Visualizations(t.db_analysis_report[1]),
                    agent_input |-> Get(t.db_analysis_report[1], "agent_input", "")]]

(***************************************************************************)
(* Inputs: DDL statements.                                                 *)
(***************************************************************************)
W(a) == <<a>>
WithClause == <<W("WITH"), W("("), W("format"), W("="), <<"'", "PARQUET", "'">>, W(")")>>

\* CREATE TABLE analytics.sales.orders ( id integer, created date ) WITH (...)
DDL_Orders ==
    Join(<<W("CREATE"), W("TABLE"), <<"analytics", ".", "sales", ".", "orders">>,
           W("("), W("id"), <<"integer", ",">>, W("created"), W("date"), W(")")>>
         \o WithClause)

\* create table sales.customers ( id integer, amount decimal(10,2) ) with (...)
DDL_Customers ==
    Join(<<W("create"), W("table"), <<"sales", ".", "customers">>,
           W("("), W("id"), <<"integer", ",">>, W("amount"),
           <<"decimal", "(", "10", ",", "2", ")">>, W(")"),
           W("with"), W("("), W("format"), W(")")>>)

\* CREATE TABLE flights ( flightdate date ) WITH (...)
DDL_Flights ==
    Join(<<W("CREATE"), W("TABLE"), W("flights"),
           W("("), W("flightdate"), W("date"), W(")")>> \o WithClause)

\* malformed: CREATE TABLE analytics.sales.items ( id integer )   -- no WITH
DDL_NoWith ==
    Join(<<W("CREATE"), W("TABLE"), <<"analytics", ".", "sales", ".", "items">>,
           W("("), W("id"), W("integer"), W(")")>>)

\* malformed: the empty text
DDL_Empty == <<>>

\* malformed: DROP TABLE items
DDL_Drop == Join(<<W("DROP"), W("TABLE"), W("items")>>)

ValidStatements == {DDL_Orders, DDL_Customers, DDL_Flights}
MalformedStatements == {DDL_NoWith, DDL_Empty, DDL_Drop}

Item(s) == [statement |-> s]

SeqsUpTo(S, n) == UNION {[1..k -> S] : k \in 0..n}

DDLBatches == SeqsUpTo({Item(s) : s \in ValidStatements \cup MalformedStatements}, MaxDDL)

(***************************************************************************)
(* Inputs: queries.                                                        *)
(***************************************************************************)
Query(queryid, text, runquantity, executiontime) ==
    [queryid |-> queryid, query |-> text,
     runquantity |-> runquantity, executiontime |-> executiontime]

\* SELECT * FROM orders
Q_Plain == Join(<<W("SELECT"), W("*"), W("FROM"), W("orders")>>)

\* SELECT * FROM orders JOIN orders       -- one table, mentioned twice
Q_SelfJoin ==
    Join(<<W("SELECT"), W("*"), W("FROM"), W("orders"), W("JOIN"), W("orders")>>)

\* SELECT count(*) FROM orders LEFT JOIN customers ON a = b JOIN items
Q_TwoJoins ==
    Join(<<W("SELECT"), <<"count", "(", "*", ")">>, W("FROM"), W("orders"),
           W("LEFT"), W("JOIN"), W("customers"), W("ON"), W("a"), W("="), W("b"),
           W("JOIN"), W("items")>>)

\* the empty text, which the analyzer cannot parse
Q_Empty == <<>>

WorkloadQueries ==
    {Query("q1", Q_Plain, rq, et) : rq \in {1000, 1001}, et \in {30, 31}}
    \cup {Query("q2", Q_SelfJoin, 1000, 30), Query("q2", Q_SelfJoin, 1001, 31),
          Query("q3", Q_TwoJoins, 1001, 30), Query("q4", Q_Empty, 1001, 31)}

WorkloadStatements == {Item(DDL_Orders), Item(DDL_Customers)}

NoReport == [x \in {} |-> 0]

\* a dotted name with every part wrapped in the quote character qc
Quoted(ref, qc) ==
    ConcatAll([i \in 1..Len(ref) |-> IF ref[i] = "." THEN <<".">> ELSE <<qc, ref[i], qc>>])

\* the three ways of naming analytics.sales.orders, in lower and upper case
OrdersNames ==
    {<<"orders">>, <<"sales", ".", "orders">>, <<"analytics", ".", "sales", ".", "orders">>,
     <<"ORDERS">>, <<"SALES", ".", "ORDERS">>, <<"ANALYTICS", ".", "SALES", ".", "ORDERS">>}

OrdersRefs ==
    OrdersNames
    \cup {Quoted(r, DQuote) : r \in OrdersNames}
    \cup {Quoted(r, Backtick) : r \in OrdersNames}

\* SELECT * FROM <ref>
SelectFrom(ref) == Join(<<W("SELECT"), W("*"), W("FROM"), ref>>)

\* SELECT * FROM orders JOIN "SALES"."ORDERS"
Q_TwoForms ==
    Join(<<W("SELECT"), W("*"), W("FROM"), W("orders"), W("JOIN"),
           Quoted(<<"SALES", ".", "ORDERS">>, DQuote)>>)

CoverageQueries ==
    {Query("c1", SelectFrom(r), 3, 1) : r \in OrdersRefs}
    \cup {Query("c2", Q_TwoForms, 5, 1), Query("c3", SelectFrom(<<"items">>), 7, 1)}

CoverageSchemas ==
    {<<Item(DDL_Orders)>>, <<Item(DDL_Customers), Item(DDL_Orders)>>}

NoTask == <<>>
NoResponse ==
    [endpoint |-> "none", code |-> 0, status |-> "", before |-> "", elapsed |-> 0,
     body |-> <<>>]

\* the service before any request
ServiceIdle ==
    /\ now = 0
    /\ posted_at = 0
    /\ batch_size = 1
    /\ task = NoTask
    /\ raised = ""
    /\ response = NoResponse
    /\ logs = <<>>
    /\ foreign_keys = FALSE

\* one process, before any repeated call
\* no LLM call in progress
LLMIdle ==
    /\ num_retries = 0
    /\ attempt = 0
    /\ model = "none"
    /\ so_calls = <<>>

ProcessIdle ==
    /\ hash_order = DefaultOrder
    /\ second_result = NoReport
    /\ LLMIdle

(***************************************************************************)
(* The schema parser on its own.                                           *)
(***************************************************************************)
InitDDL ==
    /\ pc = "start"
    /\ ddl_list \in DDLBatches
    /\ tables = <<>>
    /\ queries = <<>>
    /\ analysis_result = NoReport
    /\ db_analysis_report = NoReport
    /\ url = "absent"
    /\ engine = "none"
    /\ unreadable = {}
    /\ ProcessIdle
    /\ ServiceIdle

ParseDDLStatements ==
    /\ pc = "start"
    /\ tables' = parse_ddl_statements(ddl_list)
    /\ pc' = "parsed"
    /\ UNCHANGED <<ddl_list, queries, analysis_result, db_analysis_report, profiler, process, service>>

NextDDL == ParseDDLStatements

SpecDDL == InitDDL /\ [][NextDDL]_vars

(***************************************************************************)
(* pipeline.py, step 1: analyze_input_data, create_optimization_report,    *)
(* create_insights_report, on an input without a database to profile.      *)
(***************************************************************************)
InitWorkload ==
    /\ pc = "start"
    /\ ddl_list \in SeqsUpTo(WorkloadStatements, MaxTables)
    /\ queries \in SeqsUpTo(WorkloadQueries, MaxQueries)
    /\ tables = <<>>
    /\ analysis_result = NoReport
    /\ db_analysis_report = NoReport
    /\ url = "absent"
    /\ engine = "none"
    /\ unreadable = {}
    /\ ProcessIdle
    /\ ServiceIdle

AnalyzeInputData ==
    /\ pc = "start"
    /\ tables' = parse_ddl_statements(ddl_list)
    /\ analysis_result' = AnalysisResult(ddl_list, queries, NoDatabaseStats)
    /\ pc' = IF analysis_result'.query_analysis.statistics.raised
             THEN "raised" ELSE "analyzed"
    /\ UNCHANGED <<ddl_list, queries, db_analysis_report, profiler, process, service>>

CreateOptimizationReport ==
    /\ pc = "analyzed"
    /\ db_analysis_report' = create_optimization_report(analysis_result)
    /\ pc' = "reported"
    /\ UNCHANGED <<ddl_list, tables, queries, analysis_result, profiler, process, service>>

CreateInsightsReport ==
    /\ pc = "reported"
    /\ db_analysis_report' =
           db_analysis_report
           @@ [schema_overview |-> create_insights_report(ddl_list, queries)]
    /\ pc' = "done"
    /\ UNCHANGED <<ddl_list, tables, queries, analysis_result, profiler, process, service>>

NextWorkload == AnalyzeInputData \/ CreateOptimizationReport \/ CreateInsightsReport

SpecWorkload == InitWorkload /\ [][NextWorkload]_vars

(***************************************************************************)
(* The same steps on queries that name the declared table                  *)
(* analytics.sales.orders in every supported way.                          *)
(***************************************************************************)
InitCoverage ==
    /\ pc = "start"
    /\ ddl_list \in CoverageSchemas
    /\ queries \in SeqsUpTo(CoverageQueries, MaxQueries)
    /\ tables = <<>>
    /\ analysis_result = NoReport
    /\ db_analysis_report = NoReport
    /\ url = "absent"
    /\ engine = "none"
    /\ unreadable = {}
    /\ ProcessIdle
    /\ ServiceIdle

SpecCoverage == InitCoverage /\ [][NextWorkload]_vars

(***************************************************************************)
(* report_creator.py on workloads of many patterns: the bottlenecks and    *)
(* the materialized-view candidates of an analysis whose query patterns    *)
(* are given.                                                              *)
(***************************************************************************)
Pattern(query_id, run_quantity, execution_time, aggregations) ==
    [query_id |-> query_id, run_quantity |-> run_quantity,
     execution_time |-> execution_time, aggregations |-> aggregations]

VolumePatterns ==
    <<Pattern("v1", 5000, 12, <<"count", "sum">>),
      Pattern("v2", 2000, 40, <<"sum", "count">>),
      Pattern("v3", 1000, 31, <<"avg">>),
      Pattern("v4", 1001, 5, <<"avg">>),
      Pattern("v5", 3000, 1, <<"min">>),
      Pattern("v6", 2000, 50, <<"min">>),
      Pattern("v7", 1500, 2, <<"max">>),
      Pattern("v8", 600, 100, <<"max">>),
      Pattern("v9", 500, 3, <<"count", "sum">>),
      Pattern("v10", 1200, 20, <<>>)>>

Reversed(items) == [k \in 1..Len(items) |-> items[Len(items) + 1 - k]]

Chosen(items, ids) == SelectSeq(items, LAMBDA p : p.query_id \in ids)

\* the pattern lists: at most MaxPatterns of the patterns, in the order
\* above or in the opposite order
VolumeWorkloads ==
    {Chosen(base, ids) :
        base \in {VolumePatterns, Reversed(VolumePatterns)},
        ids \in {c \in SUBSET {VolumePatterns[i].query_id : i \in DOMAIN VolumePatterns} :
                    Cardinality(c) <= MaxPatterns}}

InitVolume ==
    /\ pc = "start"
    /\ analysis_result \in {[query_analysis |-> [patterns |-> ps]] : ps \in VolumeWorkloads}
    /\ ddl_list = <<>>
    /\ queries = <<>>
    /\ tables = <<>>
    /\ db_analysis_report = NoReport
    /\ url = "absent"
    /\ engine = "none"
    /\ unreadable = {}
    /\ ProcessIdle
    /\ ServiceIdle

IdentifyBottlenecks ==
    /\ pc = "start"
    /\ db_analysis_report' =
           [performance_bottlenecks |-> identify_bottlenecks(analysis_result)]
    /\ pc' = "bottlenecks"
    /\ UNCHANGED <<ddl_list, tables, queries, analysis_result, profiler, process, service>>

IdentifyMVCandidates ==
    /\ pc = "bottlenecks"
    /\ db_analysis_report' =
           db_analysis_report
           @@ [materialized_view_candidates |->
                  identify_mv_candidates(analysis_result.query_analysis.patterns)]
    /\ pc' = "candidates"
    /\ UNCHANGED <<ddl_list, tables, queries, analysis_result, profiler, process, service>>

NextVolume == IdentifyBottlenecks \/ IdentifyMVCandidates

SpecVolume == InitVolume /\ [][NextVolume]_vars

(***************************************************************************)
(* dashboard_utils.py: the denormalization opportunity of a schema and a   *)
(* workload of joins.                                                      *)
(***************************************************************************)
\* SELECT * FROM t JOIN t JOIN t ...   with n times JOIN t
RECURSIVE JoinChain(_)
JoinChain(n) ==
    IF n = 0 THEN <<"SELECT", Blank, "*", Blank, "FROM", Blank, "t">>
    ELSE JoinChain(n - 1) \o <<Blank, "JOIN", Blank, "t">>

\* select joined_at from t left join t
Q_JoinedAt ==
    Join(<<W("select"), W("joined_at"), W("from"), W("t"), W("left"), W("join"), W("t")>>)

JoinQueries ==
    {Query("j0", JoinChain(0), 9000, 1),
     Query("j1", JoinChain(1), 5000, 1),
     Query("j2", Q_JoinedAt, 2501, 1),
     Query("j3", JoinChain(3), 1667, 1),
     Query("j4", JoinChain(4), 500, 1),
     Query("j5", JoinChain(4), 1000, 1),
     Query("j6", JoinChain(4), 1001, 1),
     Query("j7", JoinChain(5), 1, 1)}

InitJoins ==
    /\ pc = "start"
    /\ ddl_list \in {<<>>, <<Item(DDL_Orders)>>, <<Item(DDL_Orders), Item(DDL_Customers)>>}
    /\ queries \in SeqsUpTo(JoinQueries, MaxQueries)
    /\ tables = <<>>
    /\ analysis_result = NoReport
    /\ db_analysis_report = NoReport
    /\ url = "absent"
    /\ engine = "none"
    /\ unreadable = {}
    /\ ProcessIdle
    /\ ServiceIdle

ParseSchema ==
    /\ pc = "start"
    /\ tables' = parse_ddl_statements(ddl_list)
    /\ pc' = "parsed"
    /\ UNCHANGED <<ddl_list, queries, analysis_result, db_analysis_report,
                   profiler, process, service>>

IdentifyDenormalization ==
    /\ pc = "parsed"
    /\ db_analysis_report' =
           [denormalization_opportunities |->
               identify_denormalization_opportunities(tables, queries)]
    /\ pc' = "identified"
    /\ UNCHANGED <<ddl_list, tables, queries, analysis_result, profiler, process, service>>

NextJoins == ParseSchema \/ IdentifyDenormalization

SpecJoins == InitJoins /\ [][NextJoins]_vars

(***************************************************************************)
(* query_analyzer.py: get_query_statistics on given patterns.              *)
(***************************************************************************)
StatPattern(query_id, query_type, tables_used, filter_columns, group_by_columns,
             join_types, aggregations, run_quantity, cte_usage) ==
    [query_id |-> query_id, query_type |-> query_type, tables_used |-> tables_used,
     filter_columns |-> filter_columns, group_by_columns |-> group_by_columns,
     joins |-> [i \in 1..Len(join_types) |-> [type |-> join_types[i], table |-> W("t")]],
     aggregations |-> aggregations, run_quantity |-> run_quantity,
     execution_time |-> 1, cte_usage |-> cte_usage]

StatisticsPatterns ==
    <<StatPattern("s1", "SELECT", {W("orders"), W("customers")}, {W("status")},
                   <<W("region"), W("region")>>, <<"LEFT", "LEFT">>,
                   <<"count", "sum">>, 7, FALSE),
      StatPattern("s2", "SELECT", {W("orders")}, {W("status"), W("id")},
                   <<W("region")>>, <<"INNER">>, <<"count">>, 100, FALSE),
      StatPattern("s3", "INSERT", {W("items")}, {}, <<>>, <<>>, <<>>, 3, FALSE),
      StatPattern("s4", "UNKNOWN", {W("orders")}, {W("id")},
                   <<W("day")>>, <<"LEFT">>, <<"sum">>, 0, FALSE),
      StatPattern("s5", "SELECT", {W("customers")}, {}, <<>>,
                   <<"INNER", "LEFT", "INNER">>, <<>>, 101, TRUE),
      StatPattern("s6", "DELETE", {W("orders")}, {W("status")}, <<>>, <<>>, <<>>, 1, FALSE)>>

StatisticsWorkloads ==
    {Chosen(base, ids) :
        base \in {StatisticsPatterns, Reversed(StatisticsPatterns)},
        ids \in {c \in SUBSET {StatisticsPatterns[i].query_id :
                                  i \in DOMAIN StatisticsPatterns} :
                    Cardinality(c) <= MaxPatterns}}

InitStatistics ==
    /\ pc = "start"
    /\ analysis_result \in {[query_analysis |-> [patterns |-> ps]] : ps \in StatisticsWorkloads}
    /\ ddl_list = <<>>
    /\ queries = <<>>
    /\ tables = <<>>
    /\ db_analysis_report = NoReport
    /\ url = "absent"
    /\ engine = "none"
    /\ unreadable = {}
    /\ ProcessIdle
    /\ ServiceIdle

GetQueryStatistics ==
    /\ pc = "start"
    /\ analysis_result' =
           [query_analysis |->
               [patterns |-> analysis_result.query_analysis.patterns,
                statistics |->
                    get_query_statistics(analysis_result.query_analysis.patterns)]]
    /\ pc' = "counted"
    /\ UNCHANGED <<ddl_list, tables, queries, db_analysis_report, profiler, process, service>>

NextStatistics == GetQueryStatistics

SpecStatistics == InitStatistics /\ [][NextStatistics]_vars

(***************************************************************************)
(* The same steps on two declared tables that share the bare name orders,  *)
(* sales.orders and archive.orders, and schema-qualified references.       *)
(***************************************************************************)
\* CREATE TABLE archive.orders ( id integer, created date ) WITH (...)
DDL_ArchiveOrders ==
    Join(<<W("CREATE"), W("TABLE"), <<"archive", ".", "orders">>,
           W("("), W("id"), <<"integer", ",">>, W("created"), W("date"), W(")")>>
         \o WithClause)

SharedNameSchemas ==
    {<<Item(DDL_Orders), Item(DDL_ArchiveOrders)>>,
     <<Item(DDL_ArchiveOrders), Item(DDL_Orders)>>}

SalesRefs == {<<"sales", ".", "orders">>, <<"analytics", ".", "sales", ".", "orders">>}
ArchiveRefs == {<<"archive", ".", "orders">>}

SharedNameQueries ==
    {Query("s1", SelectFrom(<<"sales", ".", "orders">>), 3, 1),
     Query("s2", SelectFrom(<<"analytics", ".", "sales", ".", "orders">>), 5, 1),
     Query("a1", SelectFrom(<<"archive", ".", "orders">>), 7, 1),
     Query("i1", SelectFrom(<<"items">>), 11, 1)}

InitSharedName ==
    /\ pc = "start"
    /\ ddl_list \in SharedNameSchemas
    /\ queries \in SeqsUpTo(SharedNameQueries, MaxQueries)
    /\ tables = <<>>
    /\ analysis_result = NoReport
    /\ db_analysis_report = NoReport
    /\ url = "absent"
    /\ engine = "none"
    /\ unreadable = {}
    /\ ProcessIdle
    /\ ServiceIdle

SpecSharedName == InitSharedName /\ [][NextWorkload]_vars

(***************************************************************************)
(* llm_connector.py: llm_call_with_so_and_fallback, one statement at a     *)
(* time.  Every call to a model, and every file operation, may raise.      *)
(***************************************************************************)
MaxRetries == 6

InitLLM ==
    /\ pc = "for"
    /\ num_retries \in 0..MaxRetries
    /\ attempt = 0
    /\ model = "model"
    /\ so_calls = <<>>
    /\ ddl_list = <<>>
    /\ queries = <<>>
    /\ tables = <<>>
    /\ analysis_result = NoReport
    /\ db_analysis_report = NoReport
    /\ url = "absent"
    /\ engine = "none"
    /\ unreadable = {}
    /\ hash_order = DefaultOrder
    /\ second_result = NoReport
    /\ ServiceIdle

\* for attempt in range(num_retries): the next iteration, or the end of the
\* loop and raise ValueError
NextAttempt ==
    /\ pc = "for"
    /\ IF attempt >= num_retries
       THEN /\ pc' = "raised"
            /\ raised' = "ValueError: All attempts failed for LLM call."
       ELSE /\ pc' = IF attempt = num_retries - 2 THEN "switch" ELSE "try"
            /\ UNCHANGED raised
    /\ UNCHANGED <<ddl_list, tables, queries, analysis_result, db_analysis_report,
                   profiler, hash_order, second_result, llm,
                   now, posted_at, batch_size, task, response, logs, foreign_keys>>

\* if attempt == num_retries - 2: os.makedirs and the prompt written to
\* ./logs; the statements of this branch stand before the try block
WritePrompt ==
    /\ pc = "switch"
    /\ \E written \in BOOLEAN :
           IF written
           THEN pc' = "get_llm" /\ UNCHANGED raised
           ELSE pc' = "raised" /\ raised' = "OSError"
    /\ UNCHANGED <<ddl_list, tables, queries, analysis_result, db_analysis_report,
                   profiler, hash_order, second_result, llm,
                   now, posted_at, batch_size, task, response, logs, foreign_keys>>

\* model = get_llm(fallback_model_id, max_tokens=28000)
GetFallbackModel ==
    /\ pc = "get_llm"
    /\ \E built \in BOOLEAN :
           IF built
           THEN /\ model' = "fallback"
                /\ pc' = "invoke"
                /\ UNCHANGED raised
           ELSE /\ pc' = "raised"
                /\ raised' = "get_llm failed"
                /\ UNCHANGED model
    /\ UNCHANGED <<ddl_list, tables, queries, analysis_result, db_analysis_report,
                   profiler, hash_order, second_result, num_retries, attempt, so_calls,
                   now, posted_at, batch_size, task, response, logs, foreign_keys>>

\* test_call = model.invoke(prompt)
TestCall ==
    /\ pc = "invoke"
    /\ \E answered \in BOOLEAN :
           IF answered
           THEN pc' = "try" /\ UNCHANGED raised
           ELSE pc' = "raised" /\ raised' = "model.invoke failed"
    /\ UNCHANGED <<ddl_list, tables, queries, analysis_result, db_analysis_report,
                   profiler, hash_order, second_result, llm,
                   now, posted_at, batch_size, task, response, logs, foreign_keys>>

\* try: return llm_call_with_so(model, prompt, output_format)
\* except Exception: logger.error(...), and the loop goes on
StructuredCall ==
    /\ pc = "try"
    /\ \E ok \in BOOLEAN :
           /\ so_calls' = Append(so_calls, [model |-> model, ok |-> ok])
           /\ IF ok
              THEN pc' = "returned" /\ UNCHANGED attempt
              ELSE pc' = "for" /\ attempt' = attempt + 1
    /\ UNCHANGED <<ddl_list, tables, queries, analysis_result, db_analysis_report,
                   profiler, hash_order, second_result, num_retries, model, service>>

NextLLM ==
    \/ NextAttempt
    \/ WritePrompt
    \/ GetFallbackModel
    \/ TestCall
    \/ StructuredCall

SpecLLM == InitLLM /\ [][NextLLM]_vars

(***************************************************************************)
(* The analysis run twice on the same input: again in the same process, or *)
(* in a process started anew (a restart of the service, another worker).   *)
(***************************************************************************)
\* SELECT count(*), sum(amount) FROM orders
Q_CountSum ==
    Join(<<W("SELECT"), <<"count", "(", "*", ")", ",">>, <<"sum", "(", "amount", ")">>,
           W("FROM"), W("orders")>>)

RepeatQueries ==
    {Query("r1", Q_CountSum, 600, 5), Query("q3", Q_TwoJoins, 1001, 30),
     Query("q1", Q_Plain, 1000, 31)}

InitRepeat ==
    /\ pc = "start"
    /\ ddl_list \in SeqsUpTo(WorkloadStatements, MaxTables)
    /\ queries \in SeqsUpTo(RepeatQueries, MaxQueries)
    /\ tables = <<>>
    /\ analysis_result = NoReport
    /\ db_analysis_report = NoReport
    /\ url = "absent"
    /\ engine = "none"
    /\ unreadable = {}
    /\ hash_order \in HashOrders
    /\ second_result = NoReport
    /\ LLMIdle
    /\ ServiceIdle

\* a new interpreter: the hash seed, and with it the iteration order of the
\* sets of strings, is drawn again
Restart ==
    /\ pc = "done"
    /\ hash_order' \in HashOrders
    /\ pc' = "restarted"
    /\ UNCHANGED <<ddl_list, tables, queries, analysis_result, db_analysis_report,
                   profiler, second_result, llm, service>>

\* analyze_input_data, create_optimization_report and create_insights_report
\* once more on the same input
AnalyzeAgain ==
    /\ pc \in {"done", "restarted"}
    /\ second_result' =
           [analysis_result |-> AnalysisResult(ddl_list, queries, NoDatabaseStats),
            db_analysis_report |->
                create_optimization_report(
                    AnalysisResult(ddl_list, queries, NoDatabaseStats))
                @@ [schema_overview |-> create_insights_report(ddl_list, queries)]]
    /\ pc' = "repeated"
    /\ UNCHANGED <<ddl_list, tables, queries, analysis_result, db_analysis_report,
                   profiler, hash_order, llm, service>>

NextRepeat == NextWorkload \/ Restart \/ AnalyzeAgain

SpecRepeat == InitRepeat /\ [][NextRepeat]_vars

(***************************************************************************)
(* analyzer.py: analyze_input_data step by step, against a live database   *)
(* whose behaviour is chosen at each call.                                 *)
(***************************************************************************)
Urls == {"absent", "postgresql://db:5432/shop", "jdbc:trino://db:443?user=u"}

\* url.startswith('jdbc:')
IsJdbc(u) == u = "jdbc:trino://db:443?user=u"

\* what the live database answers for a table it can profile
LiveRowCount == 1500
LiveSizeBytes == 5368709

\* SELECT * FROM orders WHERE id = 1
Q_Filter ==
    Join(<<W("SELECT"), W("*"), W("FROM"), W("orders"), W("WHERE"), W("id"), W("="), W("1")>>)

ProfiledQueries == {Query("q3", Q_TwoJoins, 1001, 30), Query("q5", Q_Filter, 10, 31)}

\* the full names of the tables the inputs can declare
WorkloadTableNames ==
    {SchemaAnalysis(<<d>>).tables[1].full_name : d \in WorkloadStatements}

\* _get_single_table_stats: every exception of the queries on the table is
\* caught and None (<<>>) returned
get_single_table_stats(table_name, failing) ==
    IF table_name \in failing THEN <<>>
    ELSE <<[table_name |-> table_name, row_count |-> LiveRowCount,
            size_bytes |-> LiveSizeBytes]>>

\* the loop of collect_table_statistics: stats.append(table_stats) when the
\* table gave statistics, the next table in every case
RECURSIVE CollectLoop(_, _, _)
CollectLoop(stats, table_names, failing) ==
    IF table_names = <<>> THEN stats
    ELSE CollectLoop(stats \o get_single_table_stats(table_names[1], failing),
                     Tail(table_names), failing)

\* the part of table_names before its first member in failing
RECURSIVE UpToFirstFailure(_, _)
UpToFirstFailure(table_names, failing) ==
    IF table_names = <<>> \/ table_names[1] \in failing THEN <<>>
    ELSE <<table_names[1]>> \o UpToFirstFailure(Tail(table_names), failing)

\* variant: the first failing table ends the loop and the failure leaves the
\* call
collect_table_statistics_Aborting(eng, table_names, failing) ==
    IF eng = "none" THEN [raised |-> FALSE, stats |-> <<>>]
    ELSE [raised |-> \E i \in 1..Len(table_names) : table_names[i] \in failing,
          stats |-> CollectLoop(<<>>, UpToFirstFailure(table_names, failing), {})]

\* collect_table_statistics on the collector's engine eng; raised: the call
\* ended in an exception
collect_table_statistics(eng, table_names, failing) ==
    IF eng = "none" THEN [raised |-> FALSE, stats |-> <<>>]
    ELSE [raised |-> FALSE, stats |-> CollectLoop(<<>>, table_names, failing)]

\* table_names = [t['full_name'] for t in schema_analysis['tables']]
TableNamesOf(analysis) ==
    [i \in 1..Len(analysis.schema_analysis.tables) |->
        analysis.schema_analysis.tables[i].full_name]

CollectedStats(table_statistics) ==
    [keys |-> {"overview", "table_statistics"}, error |-> "",
     overview |-> [driver |-> "trino"],
     table_statistics |-> table_statistics]

\* variant of the failure handler: the whole result is reset
FailProfiling_Reset(result, message) ==
    [schema_analysis |-> EmptyDict, query_analysis |-> EmptyDict,
     database_stats |-> ErrorStats(message),
     recommendations_input |-> result.recommendations_input]

\* analysis_result['database_stats'] = {'error': ...}
FailProfiling(result, message) ==
    [result EXCEPT !.database_stats = ErrorStats(message)]

InitAnalyze ==
    /\ pc = "start"
    /\ ddl_list \in SeqsUpTo(WorkloadStatements, MaxTables)
    /\ queries \in SeqsUpTo(ProfiledQueries, MaxQueries)
    /\ url \in Urls
    /\ tables = <<>>
    /\ analysis_result = NoReport
    /\ db_analysis_report = NoReport
    /\ engine = "none"
    /\ unreadable \in SUBSET WorkloadTableNames
    /\ ProcessIdle
    /\ ServiceIdle

\* steps 1 and 2: the schema and the query analysis
AnalyzeSchemaAndQueries ==
    /\ pc = "start"
    /\ tables' = parse_ddl_statements(ddl_list)
    /\ analysis_result' =
           [schema_analysis |-> SchemaAnalysis(ddl_list),
            query_analysis |-> QueryAnalysis(queries),
            database_stats |-> NoDatabaseStats,
            recommendations_input |-> EmptyDict]
    /\ pc' = IF url = "absent" THEN "prepare" ELSE "construct"
    /\ UNCHANGED <<ddl_list, queries, db_analysis_report, profiler, process, service>>

\* DatabaseStatsCollector(url): _parse_connection_url raises ValueError on a
\* url that does not start with jdbc:
NewCollector ==
    /\ pc = "construct"
    /\ IF IsJdbc(url)
       THEN /\ pc' = "connect"
            /\ UNCHANGED analysis_result
       ELSE /\ analysis_result' = FailProfiling(analysis_result, "Invalid JDBC URL format")
            /\ pc' = "prepare"
    /\ UNCHANGED <<ddl_list, tables, queries, db_analysis_report, profiler, process, service>>

\* connect(): create_engine, then the test query; any exception gives False
Connect ==
    /\ pc = "connect"
    /\ \E outcome \in {"no_engine", "unreachable", "connected"} :
           /\ engine' = IF outcome = "no_engine" THEN "none" ELSE "created"
           /\ IF outcome = "connected"
              THEN /\ pc' = "collect"
                   /\ UNCHANGED analysis_result
              ELSE /\ analysis_result' =
                          FailProfiling(analysis_result, "Failed to connect to database")
                   /\ pc' = "prepare"
    /\ UNCHANGED <<ddl_list, tables, queries, db_analysis_report, url, unreadable, process, service>>

\* get_database_overview, collect_table_statistics and the assembly of
\* database_stats; an exception of these calls is caught by the handler
CollectStatistics ==
    /\ pc = "collect"
    /\ \E raises \in BOOLEAN :
           IF raises
           THEN /\ analysis_result' =
                       FailProfiling(analysis_result, "Object is not JSON serializable")
                /\ pc' = "prepare"
           ELSE IF collect_table_statistics(engine, TableNamesOf(analysis_result),
                                            unreadable).raised
           THEN /\ analysis_result' =
                       FailProfiling(analysis_result, "Failed to collect stats")
                /\ pc' = "prepare"
           ELSE /\ analysis_result' =
                       [analysis_result EXCEPT !.database_stats =
                           CollectedStats(
                               collect_table_statistics(
                                   engine, TableNamesOf(analysis_result),
                                   unreadable).stats)]
                /\ pc' = "close"
    /\ UNCHANGED <<ddl_list, tables, queries, db_analysis_report, profiler, process, service>>

\* self.db_collector.close()
Close ==
    /\ pc = "close"
    /\ engine' = IF engine = "created" THEN "disposed" ELSE engine
    /\ pc' = "prepare"
    /\ UNCHANGED <<ddl_list, tables, queries, analysis_result, db_analysis_report, url, unreadable, process, service>>

\* step 4 and the return
PrepareLLMInput ==
    /\ pc = "prepare"
    /\ analysis_result' = WithRecommendationsInput(analysis_result)
    /\ pc' = "returned"
    /\ UNCHANGED <<ddl_list, tables, queries, db_analysis_report, profiler, process, service>>

NextAnalyze ==
    \/ AnalyzeSchemaAndQueries
    \/ NewCollector
    \/ Connect
    \/ CollectStatistics
    \/ Close
    \/ PrepareLLMInput

SpecAnalyze == InitAnalyze /\ [][NextAnalyze]_vars

(***************************************************************************)
(* main.py, crud.py, pipeline.py: one task from POST /new to its result,   *)
(* with the clients' GET /status and GET /getresult requests and the       *)
(* passing of time.                                                        *)
(***************************************************************************)
TASK_TIMEOUT_MINUTES == 20

\* Column(DateTime, default=datetime.datetime.now(datetime.UTC)): the default
\* is a value computed once, when models.py is imported
ImportTime == 0

\* the amounts by which the clock moves
TickMinutes == {10, 11}

\* the submitted query lists: the first n of q1, q2, q1, q2, ...
TaskQueries ==
    {[k \in 1..n |-> IF k % 2 = 1 THEN Query("q1", Q_Plain, 1001, 31)
                      ELSE Query("q2", Q_Plain, 7, 2)] : n \in 0..MaxQueries}
BatchSizes == {-1, 0, 1, 2}

\* crud.create_task
NewTask(request) ==
    [status |-> "RUNNING", submitted_at |-> ImportTime, completed_at |-> <<>>,
     original_input |-> request, db_analysis_report |-> <<>>,
     optimized_ddl |-> <<>>, migration_scripts |-> <<>>,
     rewritten_queries |-> <<>>, result |-> <<>>]

\* crud.update_task_status; the result is stored only when it is truthy
update_task_status(t, at, status, result) ==
    IF t = NoTask THEN t
    ELSE [t EXCEPT !.status = status, !.completed_at = <<at>>,
                   !.result = IF result # <<>> THEN <<result>> ELSE @]

\* crud.update_task_with_analysis
update_task_with_analysis(t, report) ==
    IF t = NoTask THEN t ELSE [t EXCEPT !.db_analysis_report = <<report>>]

\* variant: step 2 goes on without saving its results
update_task_after_step1_Unsaved(t, ddl, migrations) == t

\* crud.update_task_after_step1
update_task_after_step1(t, ddl, migrations) ==
    IF t = NoTask THEN t
    ELSE [t EXCEPT !.optimized_ddl = <<ddl>>, !.migration_scripts = <<migrations>>]

\* crud.update_task_after_step2
update_task_after_step2(t, rewritten) ==
    IF t = NoTask THEN t ELSE [t EXCEPT !.rewritten_queries = <<rewritten>>]

\* the text the LLM gives back for the query at position i of the request
Rewritten(i) == <<"rewritten", i>>

\* the batches of the rewriting step: the values of i in
\* range(0, total_queries, BATCH_SIZE), for a BATCH_SIZE other than 0; a
\* negative step from 0 up to total_queries gives no value
NumBatches(total, size) == (total + size - 1) \div size
BatchStarts(total, size) ==
    IF size < 0 THEN <<>>
    ELSE [k \in 1..NumBatches(total, size) |-> (k - 1) * size]

\* batch_end = min(i + BATCH_SIZE, total_queries)
batch_end(i, size, total) == IF i + size < total THEN i + size ELSE total


InitTask ==
    /\ pc = "idle"
    /\ ddl_list \in {<<>>, <<Item(DDL_Orders)>>}
    /\ queries \in TaskQueries
    /\ url = "jdbc:trino://db:443?user=u"
    /\ batch_size \in BatchSizes
    /\ tables = <<>>
    /\ analysis_result = NoReport
    /\ db_analysis_report = NoReport
    /\ engine = "none"
    /\ unreadable = {}
    /\ ProcessIdle
    /\ now = 0
    /\ posted_at = 0
    /\ task = NoTask
    /\ raised = ""
    /\ response = NoResponse
    /\ logs = <<>>
    /\ foreign_keys \in BOOLEAN

Tick ==
    /\ \E d \in TickMinutes :
           /\ now + d <= MaxClock
           /\ now' = now + d
    /\ UNCHANGED <<pc, ddl_list, tables, queries, analysis_result, db_analysis_report,
                   profiler, process, logs, foreign_keys, posted_at, batch_size, task, raised, response>>

\* POST /new: create_task, then the pipeline is queued as a background task
CreateTask ==
    /\ pc = "idle"
    /\ task' = NewTask([url |-> url, ddl |-> ddl_list, queries |-> queries])
    /\ posted_at' = now
    /\ response' = [endpoint |-> "new", code |-> 200, status |-> "",
                    before |-> "", elapsed |-> 0, body |-> <<>>]
    /\ pc' = "queued"
    /\ UNCHANGED <<ddl_list, tables, queries, analysis_result, db_analysis_report,
                   profiler, process, logs, foreign_keys, now, batch_size, raised>>

\* one row of log_entries
Log(level, message) == [level |-> level, message |-> message]

\* db_log_sink: crud.create_log_entry for every message of level INFO or
\* above that the bound logger emits.  The INSERT names the task's id; when
\* the tasks row is gone, a store that enforces the foreign key refuses it
\* (the sink's exception is caught by the logger) and any other store takes it.
WriteLogs(rows, t, entries) ==
    IF t # NoTask \/ ~foreign_keys THEN rows \o entries ELSE rows

PipelineFinished == Log("INFO", "Pipeline finished and database session closed.")

\* except Exception as e: raise e -- the exception leaves the pipeline; the
\* statements after the raise (the error log, the FAILED status) are never
\* run; finally closes the session and logs the end.  written: what the step
\* logged before the exception.
PipelineRaises(message, written) ==
    /\ raised' = message
    /\ pc' = "ended"
    /\ logs' = WriteLogs(logs, task, written \o <<PipelineFinished>>)
    /\ UNCHANGED task

AnalysisLogs ==
    <<Log("INFO", "Starting analysis"),
      Log("INFO", "Performing initial data analysis..."),
      Log("INFO", "Data analysis was performed"),
      Log("INFO", "Optimization report was created"),
      Log("SUCCESS", "DB analysis completed"),
      Log("INFO", "Saved analysis report to database.")>>

\* step 1: analyze_input_data, create_optimization_report,
\* create_insights_report, update_task_with_analysis
PipelineAnalyze ==
    /\ pc = "queued"
    /\ \E outcome \in {"no_engine", "unreachable", "connected"} :
           /\ analysis_result' =
                  AnalysisResult(ddl_list, queries,
                      IF outcome = "connected"
                      THEN CollectedStats(
                               collect_table_statistics(
                                   "created",
                                   [i \in 1..Len(SchemaAnalysis(ddl_list).tables) |->
                                       SchemaAnalysis(ddl_list).tables[i].full_name],
                                   unreadable).stats)
                      ELSE ErrorStats("Failed to connect to database"))
           /\ engine' = IF outcome = "connected" THEN "disposed"
                        ELSE IF outcome = "unreachable" THEN "created" ELSE "none"
    /\ tables' = parse_ddl_statements(ddl_list)
    /\ db_analysis_report' =
           create_optimization_report(analysis_result')
           @@ [schema_overview |-> create_insights_report(ddl_list, queries)]
    /\ task' = update_task_with_analysis(task, db_analysis_report')
    /\ logs' = WriteLogs(logs, task, AnalysisLogs)
    /\ pc' = "optimize"
    /\ UNCHANGED <<ddl_list, queries, url, unreadable, process, foreign_keys,
                   now, posted_at, batch_size, raised, response>>

CallingLLM == Log("INFO", "Calling LLM for DDL and migration optimization...")

OptimizeLogs ==
    <<CallingLLM,
      Log("SUCCESS", "DDL/Migration generation completed"),
      Log("INFO", "design_note"),
      Log("INFO", "Saved optimized DDL and migrations to database.")>>

\* step 2: the LLM call for the new DDL and the migrations, then
\* update_task_after_step1
PipelineOptimize ==
    /\ pc = "optimize"
    /\ \E answered \in BOOLEAN :
           IF answered
           THEN /\ task' = update_task_after_step1(task, "ddl", "migrations")
                /\ logs' = WriteLogs(logs, task, OptimizeLogs)
                /\ pc' = "rewrite"
                /\ UNCHANGED raised
           ELSE PipelineRaises("All 5 attempts failed for LLM call.", <<CallingLLM>>)
    /\ UNCHANGED <<ddl_list, tables, queries, analysis_result, db_analysis_report,
                   profiler, process, foreign_keys, now, posted_at, batch_size, response>>

\* log.info(Processing batch {batch_num}: queries {i + 1} to {batch_end})
ProcessingBatch(batch_num, i, end) ==
    [level |-> "INFO", message |-> "Processing batch",
     batch_num |-> batch_num, first |-> i + 1, last |-> end]

\* what step 3 logs up to and including its request number last
RewriteLogs(batched, last) ==
    <<Log("INFO", "Calling LLM for query rewriting...")>>
    \o (IF batched
        THEN <<Log("INFO", "Large number of queries detected")>>
             \o [k \in 1..last |->
                    ProcessingBatch(k, (k - 1) * batch_size,
                                    batch_end((k - 1) * batch_size, batch_size,
                                              Len(queries)))]
        ELSE <<>>)

RewriteCompleted == Log("SUCCESS", "Query rewriting completed")

\* step 3: the rewriting, in batches when there are more queries than
\* BATCH_SIZE, with the count validations, then update_task_after_step2 and
\* update_task_status(DONE).  returned[k] is the number of queries the LLM
\* gives back for request k, -1 when the call fails; a request answered with
\* the right number is answered with the rewritten texts of its queries, in
\* their order.  range() raises for a step of 0.
PipelineRewrite ==
    /\ pc = "rewrite"
    /\ LET total == Len(queries)
           batched == total > batch_size
           starts == IF ~batched THEN <<0>>
                     ELSE IF batch_size = 0 THEN <<>>
                     ELSE BatchStarts(total, batch_size)
           calls == Len(starts)
           End(k) == IF batched THEN batch_end(starts[k], batch_size, total) ELSE total
           Expected(k) == End(k) - starts[k]
       IN  IF batched /\ batch_size = 0
           THEN PipelineRaises("range() arg 3 must not be zero", RewriteLogs(batched, 0))
           ELSE
           \E returned \in [1..calls -> -1..(MaxQueries + 1)] :
               LET bad == {k \in 1..calls : returned[k] # Expected(k)}
                   all_rewritten_queries ==
                       ConcatAll([k \in 1..calls |->
                                     [j \in 1..returned[k] |-> Rewritten(starts[k] + j)]])
               IN  IF bad = {} /\ Len(all_rewritten_queries) = total
                   THEN /\ task' = update_task_status(
                                      update_task_after_step2(task, all_rewritten_queries),
                                      now, "DONE",
                                      [message |-> "Task completed successfully."])
                        /\ logs' = WriteLogs(logs, task,
                                       RewriteLogs(batched, calls)
                                       \o <<RewriteCompleted,
                                             Log("INFO", "Saved rewritten queries to database."),
                                             Log("SUCCESS", "Task finished successfully."),
                                             PipelineFinished>>)
                        /\ pc' = "ended"
                        /\ UNCHANGED raised
                   ELSE IF bad = {}
                        THEN PipelineRaises(
                                 "LLM returned a wrong number of rewritten queries",
                                 RewriteLogs(batched, calls)
                                 \o <<RewriteCompleted,
                                       Log("ERROR", "Query count mismatch")>>)
                        ELSE IF returned[Min(bad)] = -1
                        THEN PipelineRaises("All 5 attempts failed for LLM call.",
                                            RewriteLogs(batched, Min(bad)))
                        ELSE PipelineRaises(
                                 "LLM returned a wrong number of rewritten queries",
                                 RewriteLogs(batched, Min(bad))
                                 \o (IF batched THEN <<Log("ERROR", "Batch failed")>>
                                     ELSE <<RewriteCompleted,
                                            Log("ERROR", "Query count mismatch")>>))
    /\ UNCHANGED <<ddl_list, tables, queries, analysis_result, db_analysis_report,
                   profiler, process, foreign_keys, now, posted_at, batch_size, response>>

\* DELETE /task/{task_id}: crud.delete_task; db.delete(db_task) deletes the
\* task's log entries with it (cascade="all, delete-orphan")
DeleteTask ==
    /\ IF task = NoTask
       THEN /\ response' = [endpoint |-> "delete", code |-> 404, status |-> "",
                            before |-> "", elapsed |-> 0, body |-> <<>>]
            /\ UNCHANGED <<task, logs>>
       ELSE /\ task' = NoTask
            /\ logs' = <<>>
            /\ response' = [endpoint |-> "delete", code |-> 204, status |-> "",
                            before |-> task.status, elapsed |-> now - posted_at,
                            body |-> <<>>]
    /\ UNCHANGED <<pc, ddl_list, tables, queries, analysis_result, db_analysis_report,
                   profiler, process, foreign_keys, now, posted_at, batch_size, raised>>

\* GET /status
GetTaskStatus ==
    /\ IF task = NoTask
       THEN /\ response' = [endpoint |-> "status", code |-> 404, status |-> "",
                            before |-> "", elapsed |-> 0, body |-> <<>>]
            /\ UNCHANGED task
       ELSE IF task.status = "RUNNING"
               /\ now - task.submitted_at > TASK_TIMEOUT_MINUTES
       THEN /\ task' = update_task_status(task, now, "FAILED",
                           [error |-> "Task exceeded the 20-minute time limit."])
            /\ response' = [endpoint |-> "status", code |-> 200, status |-> "FAILED",
                            before |-> task.status, elapsed |-> now - posted_at,
                            body |-> <<>>]
       ELSE /\ response' = [endpoint |-> "status", code |-> 200, status |-> task.status,
                            before |-> task.status, elapsed |-> now - posted_at,
                            body |-> <<>>]
            /\ UNCHANGED task
    /\ UNCHANGED <<pc, ddl_list, tables, queries, analysis_result, db_analysis_report,
                   profiler, process, logs, foreign_keys, now, posted_at, batch_size, raised>>

\* the status code of GET /getresult
ResultCode(t) ==
    IF t = NoTask THEN 404
    ELSE IF t.status = "RUNNING" THEN 202
    ELSE IF t.status = "FAILED" THEN 500
    ELSE IF t.status # "DONE" THEN 400
    ELSE IF Len(t.original_input.queries)
            # (IF t.rewritten_queries = <<>> THEN 0 ELSE Len(t.rewritten_queries[1]))
    THEN 500
    ELSE 200

\* s.strip() for s in text.split(';') if s.strip(): the stored text of the
\* model is one statement without a semicolon, or nothing
SplitStatements(stored) ==
    IF stored = <<>> THEN <<>> ELSE <<[statement |-> stored[1]]>>

\* the positions enumerate(rewritten_queries_list) pairs the original
\* queries with
ResultQueries_Reversed(original, rewritten) ==
    [i \in 1..Len(rewritten) |->
        [queryid |-> original[Len(original) + 1 - i].queryid,
         query |-> rewritten[i],
         runquantity |-> original[Len(original) + 1 - i].runquantity,
         executiontime |-> original[Len(original) + 1 - i].executiontime]]
ResultQueries(original, rewritten) ==
    [i \in 1..Len(rewritten) |->
        [queryid |-> original[i].queryid,
         query |-> rewritten[i],
         runquantity |-> original[i].runquantity,
         executiontime |-> original[i].executiontime]]

\* models.ResultResponse of GET /getresult, <<>> when an HTTPException is raised
ResultBody(t) ==
    IF ResultCode(t) # 200 THEN <<>>
    ELSE [ddl |-> SplitStatements(t.optimized_ddl),
          migrations |-> SplitStatements(t.migration_scripts),
          queries |-> ResultQueries(
                          t.original_input.queries,
                          IF t.rewritten_queries = <<>> THEN <<>>
                          ELSE t.rewritten_queries[1])]

\* GET /getresult
GetTaskResult ==
    /\ response' = [endpoint |-> "getresult", code |-> ResultCode(task), status |-> "",
                    before |-> IF task = NoTask THEN "" ELSE task.status,
                    elapsed |-> IF task = NoTask THEN 0 ELSE now - posted_at,
                    body |-> ResultBody(task)]
    /\ UNCHANGED <<pc, ddl_list, tables, queries, analysis_result, db_analysis_report,
                   profiler, process, logs, foreign_keys, now, posted_at, batch_size, task, raised>>

\* GET /task/{task_id}/analysis
GetAnalysisReport ==
    /\ response' = [endpoint |-> "analysis", code |-> create_analysis_report(task).code,
                    status |-> "",
                    before |-> IF task = NoTask THEN "" ELSE task.status,
                    elapsed |-> IF task = NoTask THEN 0 ELSE now - posted_at,
                    body |-> create_analysis_report(task).body]
    /\ UNCHANGED <<pc, ddl_list, tables, queries, analysis_result, db_analysis_report,
                   profiler, process, logs, foreign_keys, now, posted_at, batch_size,
                   task, raised>>

NextTask ==
    \/ Tick
    \/ CreateTask
    \/ PipelineAnalyze
    \/ PipelineOptimize
    \/ PipelineRewrite
    \/ GetTaskStatus
    \/ GetTaskResult
    \/ GetAnalysisReport
    \/ DeleteTask

SpecTask == InitTask /\ [][NextTask]_vars

(***************************************************************************)
(* Properties.  What a property expects is computed from the inputs        *)
(* (ddl_list, queries) by the definitions of this section, not by the      *)
(* operators of the program.                                               *)
(***************************************************************************)
Malformed(d) == {i \in 1..Len(d) : d[i].statement \in MalformedStatements}

\* the queries whose text can be parsed, in input order
HasText(q) == q.query # <<>>
Parsed == SelectSeq(queries, HasText)

\* the positions, in a text split at blanks, of the words that follow FROM
\* or JOIN
MentionAt(toks) ==
    {i \in 2..Len(toks) : toks[i - 1] \in {<<"FROM">>, <<"from">>, <<"JOIN">>, <<"join">>}}
MentionCount(text) == Cardinality(MentionAt(SplitWS(text)))
Mentioned(text) == {SplitWS(text)[i] : i \in MentionAt(SplitWS(text))}

JoinCount(text) == Cardinality({i \in 1..Len(text) : Lower(text[i]) = "join"})

Done == pc \in {"reported", "done"}
Analyzed == pc \in {"analyzed", "reported", "done"}

\* C1 (as stated): a batch of N statements with exactly one malformed
\* statement parses into exactly N-1 tables.
C1_OneMalformedGivesNMinusOne ==
    (pc = "parsed" /\ Cardinality(Malformed(ddl_list)) = 1)
        => Len(tables) = Len(ddl_list) - 1

OrdersBucket == <<"sales", ".", "orders">>

\* the run quantity of every query, once per FROM/JOIN word naming orders
OrdersUsageExpected ==
    SumSeq([i \in 1..Len(queries) |->
               queries[i].runquantity
               * Cardinality({k \in MentionAt(SplitWS(queries[i].query)) :
                                 SplitWS(queries[i].query)[k] \in OrdersRefs})])

\* C6 (as stated): with analytics.sales.orders declared, every reference
\* written orders, sales.orders or analytics.sales.orders, in any case, bare,
\* double-quoted or backquoted, adds the query's run quantity to the one
\* bucket sales.orders.
C6_EveryFormReachesTheBucket ==
    (pc = "done" /\ queries # <<>>)
        => Get(db_analysis_report.schema_overview.query_coverage.table_usage,
               OrdersBucket, 0) = OrdersUsageExpected

\* C7: every parsed query adds its run quantity to the table histogram once
\* per distinct table mentioned after FROM/JOIN, however often it is
\* mentioned; the histogram's total is the sum of run quantity times the
\* size of the referenced-table set.
C7_WeightedOncePerDistinctTable ==
    Analyzed =>
        LET used == analysis_result.query_analysis.statistics.most_used_tables
            ps == analysis_result.query_analysis.patterns
        IN  /\ DOMAIN used = UNION {Mentioned(Parsed[i].query) : i \in 1..Len(Parsed)}
            /\ \A t \in DOMAIN used :
                   used[t] = SumSeq([i \in 1..Len(Parsed) |->
                                        IF t \in Mentioned(Parsed[i].query)
                                        THEN Parsed[i].runquantity ELSE 0])
            /\ SumValues(used) =
                   SumSeq([i \in 1..Len(ps) |->
                              ps[i].run_quantity * Cardinality(ps[i].tables_used)])

C7_Witness ==
    /\ pc = "analyzed"
    /\ \E i \in 1..Len(Parsed) :
           /\ MentionCount(Parsed[i].query) = 2
           /\ Cardinality(Mentioned(Parsed[i].query)) = 1

BottleneckCount(kind) ==
    SumSeq([i \in 1..Len(db_analysis_report.performance_bottlenecks) |->
               IF db_analysis_report.performance_bottlenecks[i].type = kind
               THEN db_analysis_report.performance_bottlenecks[i].count ELSE 0])

\* C8: a pattern counts as high volume iff its run quantity exceeds 1000
\* (1000 out, 1001 in) and as slow iff its execution time exceeds 30 (30 out,
\* 31 in), each test on its own.
C8_StrictThresholds ==
    Done =>
        /\ BottleneckCount("high_volume_queries") =
               Cardinality({i \in 1..Len(Parsed) : Parsed[i].runquantity >= 1001})
        /\ BottleneckCount("slow_queries") =
               Cardinality({i \in 1..Len(Parsed) : Parsed[i].executiontime >= 31})

C8_Witness ==
    /\ pc = "reported"
    /\ \E i, j \in 1..Len(Parsed) :
           /\ Parsed[i].runquantity = 1000 /\ Parsed[i].executiontime = 31
           /\ Parsed[j].runquantity = 1001 /\ Parsed[j].executiontime = 30

TotalJoins == SumSeq([i \in 1..Len(Parsed) |-> JoinCount(Parsed[i].query)])
ManyJoins == 2 * TotalJoins > Len(Parsed)
ReportedArchetype == db_analysis_report.agent_input.source_schema_archetype

TopLevelSections ==
    {"executive_summary", "database_profile", "performance_bottlenecks",
     "schema_insights", "query_patterns", "recommendations",
     "implementation_priority", "agent_input", "design_document"}

EmptyInputs == ddl_list = <<>> /\ queries = <<>>

\* C10: on an empty DDL list and an empty query list nothing raises, the
\* parser returns no table, the statistics are zero or empty with average
\* execution time 0, and the report has every top-level section with a
\* zeroed executive summary.
C10_EmptyInputsGiveZeroedReport ==
    EmptyInputs =>
        /\ pc # "raised"
        /\ Analyzed =>
               /\ tables = <<>>
               /\ analysis_result.query_analysis.statistics.total_queries = 0
               /\ analysis_result.query_analysis.statistics.avg_execution_time = Zero
               /\ analysis_result.query_analysis.statistics.cte_usage = 0
               /\ analysis_result.query_analysis.statistics.high_frequency_queries = <<>>
               /\ \A k \in {"query_types", "most_used_tables", "join_patterns",
                            "aggregation_usage", "most_used_filter_columns",
                            "most_used_group_by_columns"} :
                      DOMAIN analysis_result.query_analysis.statistics[k] = {}
        /\ Done =>
               /\ TopLevelSections \subseteq DOMAIN db_analysis_report
               /\ db_analysis_report.executive_summary.database_size = 0
               /\ db_analysis_report.executive_summary.total_tables = 0
               /\ db_analysis_report.executive_summary.total_rows = <<0>>
               /\ db_analysis_report.executive_summary.query_volume_per_day = 0
               /\ db_analysis_report.executive_summary.critical_issues = 0

C10_Witness == pc = "reported" /\ EmptyInputs

\* C2 (as stated): when analyze_input_data returns, no engine that was
\* created is left undisposed.
C2_EngineReleasedOnReturn == pc = "returned" => engine # "created"

ProfilingFailed == "error" \in analysis_result.database_stats.keys

\* C3: when the profiler cannot connect or the profiling phase raises, the
\* call still returns, database_stats is an {error: message} placeholder,
\* and schema_analysis and query_analysis are what they are without
\* profiling.
C3_FailureKeepsSchemaAndQueryAnalysis ==
    /\ pc \in {"start", "construct", "connect", "collect", "close", "prepare", "returned"}
    /\ (pc \in {"prepare", "returned"} /\ ProfilingFailed) =>
           /\ analysis_result.database_stats.keys = {"error"}
           /\ analysis_result.database_stats.error # ""
           /\ analysis_result.schema_analysis = SchemaAnalysis(ddl_list)
           /\ analysis_result.query_analysis = QueryAnalysis(queries)
           /\ analysis_result.schema_analysis.statistics.total_tables = Len(ddl_list)
           /\ analysis_result.query_analysis.statistics.total_queries = Len(queries)

C3_Witness ==
    /\ pc = "returned"
    /\ ProfilingFailed
    /\ ddl_list # <<>>
    /\ queries # <<>>

\* C4 (as stated): when a step of run_analysis_pipeline has raised, the
\* task is FAILED, with the error message in its result, once the pipeline
\* has ended.
C4_RaisedPipelineMarksFailed ==
    (pc = "ended" /\ raised # "")
        => /\ task.status = "FAILED"
           /\ task.result # <<>>
           /\ "error" \in DOMAIN task.result[1]

\* C5 (as stated): for a task that is RUNNING more than 20 minutes after its
\* submission, GET /status answers FAILED and GET /getresult answers 500,
\* never 202, whichever request comes first.
C5_OverdueTaskNeverReportedRunning ==
    (response.before = "RUNNING" /\ response.elapsed > 20)
        => /\ response.endpoint = "status" => response.status = "FAILED"
           /\ response.endpoint = "getresult" => response.code = 500

\* C11 (as stated): create_analysis_report never raises on a stored report
\* that lacks some keys; whenever the task has a report, a projection is
\* returned, the missing keys being replaced by empty defaults.
C11_ProjectionNeverRaises ==
    (response.endpoint = "analysis" /\ task # NoTask /\ task.db_analysis_report # <<>>)
        => /\ response.code = 200
           /\ "visualizations" \in DOMAIN response.body

\* C12 (as stated): the analysis and the report creation run twice on the
\* same DDL batch and query batch give identical outputs, the same values in
\* the same order.
C12_RepeatedRunsAgree ==
    pc = "repeated"
        => /\ second_result.analysis_result = analysis_result
           /\ second_result.db_analysis_report = db_analysis_report

\* C13 (as stated): a connection string that does not start with jdbc: is a
\* fatal error; analyze_input_data raises it to its caller and returns no
\* result for such an input.
C13_MalformedSchemeIsRaised ==
    (url # "absent" /\ ~IsJdbc(url)) => pc # "returned"

\* the tables handed to collect_table_statistics, in input order
ProfiledTableNames ==
    [i \in 1..Len(tables) |-> Dotted3(tables[i].catalog, tables[i].schema, tables[i].name)]

Readable(t) == t \notin unreadable

\* C14: in collect_table_statistics a table that cannot be profiled does not
\* end the loop; the result holds the statistics of exactly the tables that
\* can be profiled, in input order, and the call does not raise.
C14_FailingTableIsSkipped ==
    /\ (pc \in {"prepare", "returned"} /\ ProfilingFailed)
           => analysis_result.database_stats.error # "Failed to collect stats"
    /\ (pc \in {"close", "prepare", "returned"}
            /\ "table_statistics" \in analysis_result.database_stats.keys)
           => [i \in 1..Len(analysis_result.database_stats.table_statistics) |->
                  analysis_result.database_stats.table_statistics[i].table_name]
              = SelectSeq(ProfiledTableNames, Readable)

\* the first of two tables cannot be profiled and the second one can
C14_Witness ==
    /\ pc = "close"
    /\ Len(ProfiledTableNames) = 2
    /\ ~Readable(ProfiledTableNames[1])
    /\ Readable(ProfiledTableNames[2])
    /\ Len(analysis_result.database_stats.table_statistics) = 1

\* C15 (as stated): once DELETE /task/{task_id} has deleted the task, the
\* store holds no task row and no log entry of it, whatever the pipeline of
\* that task goes on to do.
C15_DeletedTaskLeavesNoData ==
    (pc # "idle" /\ task = NoTask) => logs = <<>>

\* C16: GET /getresult answers 404 for an unknown task, 202 for a RUNNING
\* task and 500 for a FAILED one; for a DONE task it answers 500 when the
\* numbers of original and rewritten queries differ, and otherwise returns
\* one query per original query, the rewritten text at position i carrying
\* the queryid and the runquantity of the original query at position i.
C16_ResultOnlyWhenDone ==
    [][GetTaskResult =>
        /\ (task = NoTask) = (response'.code = 404)
        /\ (task # NoTask /\ task.status = "RUNNING") = (response'.code = 202)
        /\ (task # NoTask /\ task.status = "FAILED") => response'.code = 500
        /\ response'.code = 200 => task # NoTask /\ task.status = "DONE"
        /\ (task # NoTask /\ task.status = "DONE") =>
               LET original == task.original_input.queries
                   rewritten == IF task.rewritten_queries = <<>> THEN <<>>
                                ELSE task.rewritten_queries[1]
               IN  IF Len(original) # Len(rewritten)
                   THEN response'.code = 500
                   ELSE /\ response'.code = 200
                        /\ Len(response'.body.queries) = Len(original)
                        /\ \A i \in 1..Len(original) :
                               /\ response'.body.queries[i].queryid = original[i].queryid
                               /\ response'.body.queries[i].runquantity
                                      = original[i].runquantity
                               /\ response'.body.queries[i].query = rewritten[i]]_vars

\* a DONE task with two different queries was fetched
C16_Witness ==
    /\ response.endpoint = "getresult"
    /\ response.code = 200
    /\ Len(response.body.queries) = 2
    /\ response.body.queries[1].queryid = "q1"
    /\ response.body.queries[2].queryid = "q2"
    /\ response.body.queries[2].query = Rewritten(2)

\* the patterns given to the report and what it says about them
GivenPatterns == analysis_result.query_analysis.patterns
Bottlenecks == db_analysis_report.performance_bottlenecks
BottlenecksOfType(type) == {i \in DOMAIN Bottlenecks : Bottlenecks[i].type = type}
GivenWith(Test(_)) == {i \in DOMAIN GivenPatterns : Test(GivenPatterns[i])}
RunsOver1000(p) == p.run_quantity > 1000
TimeOver30(p) == p.execution_time > 30
RunsOf(indexes) ==
    SumSeq([i \in DOMAIN GivenPatterns |->
               IF i \in indexes THEN GivenPatterns[i].run_quantity ELSE 0])
Score(p) == p.execution_time * p.run_quantity
IdsOf(details) == {details[i].query_id : i \in DOMAIN details}
Descending(ns) == \A i \in DOMAIN ns : \A j \in DOMAIN ns : i < j => ns[i] >= ns[j]

\* C17: the bottleneck list has at most one entry per type; it has a
\* high_volume_queries entry iff some pattern has run_quantity > 1000, whose
\* total_executions is the sum of run_quantity over all those patterns and
\* whose count is their number; the single pattern with run_quantity 5000 and
\* execution_time 12 gives exactly that one entry, with total_executions 5000.
C17_HighVolumeTotals ==
    pc \in {"bottlenecks", "candidates"} =>
        /\ \A i \in DOMAIN Bottlenecks : \A j \in DOMAIN Bottlenecks :
               Bottlenecks[i].type = Bottlenecks[j].type => i = j
        /\ (BottlenecksOfType("high_volume_queries") # {}) = (GivenWith(RunsOver1000) # {})
        /\ \A i \in BottlenecksOfType("high_volume_queries") :
               /\ Bottlenecks[i].total_executions = RunsOf(GivenWith(RunsOver1000))
               /\ Bottlenecks[i].count = Cardinality(GivenWith(RunsOver1000))
        /\ GivenPatterns = <<Pattern("v1", 5000, 12, <<"count", "sum">>)>> =>
               /\ Len(Bottlenecks) = 1
               /\ Bottlenecks[1].type = "high_volume_queries"
               /\ Bottlenecks[1].total_executions = 5000

\* more high-volume patterns than the details list, next to a slow-query entry
C17_Witness ==
    /\ pc = "bottlenecks"
    /\ Cardinality(GivenWith(RunsOver1000)) > 5
    /\ Len(Bottlenecks) = 2
    /\ Bottlenecks[2].count = Cardinality(GivenWith(RunsOver1000))
    /\ Len(Bottlenecks[2].details) = 5

\* C18 (as stated): in both buckets the details are in descending order of
\* execution_time * run_quantity; the high-volume details are the 5 entries
\* with the highest such score among the high-volume patterns, and the
\* slow-query details list every slow pattern.
C18_DetailsRankedByImpact ==
    pc \in {"bottlenecks", "candidates"} =>
        /\ \A b \in DOMAIN Bottlenecks :
               Descending([i \in DOMAIN Bottlenecks[b].details |->
                              Score(Bottlenecks[b].details[i])])
        /\ \A b \in BottlenecksOfType("slow_queries") :
               IdsOf(Bottlenecks[b].details)
                   = {GivenPatterns[i].query_id : i \in GivenWith(TimeOver30)}
        /\ \A b \in BottlenecksOfType("high_volume_queries") :
               /\ Len(Bottlenecks[b].details)
                      = IF Cardinality(GivenWith(RunsOver1000)) < 5
                        THEN Cardinality(GivenWith(RunsOver1000)) ELSE 5
               /\ \A i \in GivenWith(RunsOver1000) :
                      \/ GivenPatterns[i].query_id \in IdsOf(Bottlenecks[b].details)
                      \/ \A d \in DOMAIN Bottlenecks[b].details :
                             Score(GivenPatterns[i]) <= Score(Bottlenecks[b].details[d])

\* C18 (amended): the slow-query details list every slow pattern, each with
\* its impact_score execution_time * run_quantity, in descending order of
\* that score; the high-volume details are the 5 high-volume patterns with
\* the highest run_quantity, in descending order of run_quantity, each with
\* its total_time execution_time * run_quantity.
C18_DetailsRankedPerBucket ==
    pc \in {"bottlenecks", "candidates"} =>
        /\ \A b \in BottlenecksOfType("slow_queries") :
               /\ Descending([i \in DOMAIN Bottlenecks[b].details |->
                                 Bottlenecks[b].details[i].impact_score])
               /\ \A i \in DOMAIN Bottlenecks[b].details :
                      Bottlenecks[b].details[i].impact_score
                          = Score(Bottlenecks[b].details[i])
               /\ Len(Bottlenecks[b].details) = Cardinality(GivenWith(TimeOver30))
               /\ IdsOf(Bottlenecks[b].details)
                      = {GivenPatterns[i].query_id : i \in GivenWith(TimeOver30)}
        /\ \A b \in BottlenecksOfType("high_volume_queries") :
               /\ Descending([i \in DOMAIN Bottlenecks[b].details |->
                                 Bottlenecks[b].details[i].run_quantity])
               /\ \A i \in DOMAIN Bottlenecks[b].details :
                      Bottlenecks[b].details[i].total_time
                          = Score(Bottlenecks[b].details[i])
               /\ Len(Bottlenecks[b].details)
                      = IF Cardinality(GivenWith(RunsOver1000)) < 5
                        THEN Cardinality(GivenWith(RunsOver1000)) ELSE 5
               /\ Cardinality(IdsOf(Bottlenecks[b].details)) = Len(Bottlenecks[b].details)
               /\ \A i \in GivenWith(RunsOver1000) :
                      \/ \E d \in DOMAIN Bottlenecks[b].details :
                             /\ Bottlenecks[b].details[d].query_id
                                    = GivenPatterns[i].query_id
                             /\ Bottlenecks[b].details[d].run_quantity
                                    = GivenPatterns[i].run_quantity
                             /\ Bottlenecks[b].details[d].execution_time
                                    = GivenPatterns[i].execution_time
                      \/ /\ GivenPatterns[i].query_id \notin IdsOf(Bottlenecks[b].details)
                         /\ \A d \in DOMAIN Bottlenecks[b].details :
                                GivenPatterns[i].run_quantity
                                    <= Bottlenecks[b].details[d].run_quantity

\* seven high-volume patterns of which the one left out has a higher
\* execution_time * run_quantity than one that is listed, and two slow ones
C18_Witness ==
    /\ pc = "bottlenecks"
    /\ Cardinality(GivenWith(RunsOver1000)) = 7
    /\ Cardinality(GivenWith(TimeOver30)) >= 2
    /\ \E b \in BottlenecksOfType("high_volume_queries") :
           /\ "v10" \notin IdsOf(Bottlenecks[b].details)
           /\ "v7" \in IdsOf(Bottlenecks[b].details)

Candidates == db_analysis_report.materialized_view_candidates
RunsOver500(p) == p.run_quantity > 500
\* the patterns with more than 500 runs that use exactly the functions fs
GroupOf(fs) == {i \in GivenWith(RunsOver500) : Range(GivenPatterns[i].aggregations) = fs}
QualifyingGroups ==
    {fs \in {Range(GivenPatterns[i].aggregations) : i \in GivenWith(RunsOver500)} :
        Cardinality(GroupOf(fs)) >= 2}

\* C19: the patterns with run_quantity > 500 are grouped by their set of
\* aggregation functions, whatever the order; a group is a candidate iff it
\* has at least 2 such patterns; the result is the at most 3 candidate groups
\* of the largest total run_quantity, in descending order, each with the
\* number and the total runs of its patterns over 500 runs and the label
\* high iff that total is over 5000, medium otherwise.
C19_MVCandidates ==
    pc = "candidates" =>
        /\ Len(Candidates) = IF Cardinality(QualifyingGroups) < 3
                             THEN Cardinality(QualifyingGroups) ELSE 3
        /\ Descending([i \in DOMAIN Candidates |-> Candidates[i].total_executions])
        /\ \A i \in DOMAIN Candidates : \A j \in DOMAIN Candidates :
               Candidates[i].aggregations = Candidates[j].aggregations => i = j
        /\ \A i \in DOMAIN Candidates :
               /\ Candidates[i].aggregations \in QualifyingGroups
               /\ Candidates[i].query_count = Cardinality(GroupOf(Candidates[i].aggregations))
               /\ Candidates[i].total_executions = RunsOf(GroupOf(Candidates[i].aggregations))
               /\ Candidates[i].potential_savings
                      = IF Candidates[i].total_executions > 5000 THEN "high" ELSE "medium"
        /\ \A fs \in QualifyingGroups :
               \/ \E i \in DOMAIN Candidates : Candidates[i].aggregations = fs
               \/ \A i \in DOMAIN Candidates :
                      RunsOf(GroupOf(fs)) <= Candidates[i].total_executions

\* four candidate groups of which three are returned: count and sum written
\* in both orders next to a pattern of exactly 500 runs, a group of exactly
\* 5000 runs, and the group of the fewest runs left out
C19_Witness ==
    /\ pc = "candidates"
    /\ Cardinality(QualifyingGroups) = 4
    /\ Len(Candidates) = 3
    /\ Candidates[1].aggregations = {"count", "sum"}
    /\ Candidates[1].query_count = 2
    /\ Cardinality({i \in DOMAIN GivenPatterns :
                       Range(GivenPatterns[i].aggregations) = {"count", "sum"}}) = 3
    /\ Candidates[1].potential_savings = "high"
    /\ Candidates[2].total_executions = 5000
    /\ Candidates[2].potential_savings = "medium"
    /\ \A i \in DOMAIN Candidates : Candidates[i].aggregations # {"avg"}

Opportunity == db_analysis_report.denormalization_opportunities
\* the number of times the letters JOIN stand in the text of query i
JoinsOf(i) ==
    Cardinality({k \in DOMAIN queries[i].query :
                    queries[i].query[k] \in {"JOIN", "join", "joined_at"}})
WeightedJoins ==
    SumSeq([i \in DOMAIN queries |-> JoinsOf(i) * queries[i].runquantity])
RunsOfComplex ==
    SumSeq([i \in DOMAIN queries |-> IF JoinsOf(i) > 3 THEN queries[i].runquantity ELSE 0])

TableUsage == db_analysis_report.schema_overview.query_coverage.table_usage
\* run quantity times the number of FROM/JOIN references, over the queries
ReferencedRuns ==
    SumSeq([i \in 1..Len(queries) |->
               queries[i].runquantity * MentionCount(queries[i].query)])

\* C21 (as stated): every FROM/JOIN reference of every query adds the
\* query's run quantity to exactly one usage bucket and none is dropped, so
\* the usage values sum to the sum over the queries of run quantity times
\* the number of FROM/JOIN references.
C21_NoReferenceIsDropped ==
    (pc = "done" /\ "query_coverage" \in DOMAIN db_analysis_report.schema_overview)
        => SumValues(TableUsage) = ReferencedRuns

\* C22 (as stated): with an empty DDL list and an empty query list the
\* insight report holds a denormalization opportunity_level of low and an
\* empty list of partitioning candidates, both fields being present.
C22_EmptyInputsInsightSections ==
    (pc = "done" /\ ddl_list = <<>> /\ queries = <<>>) =>
        /\ "denormalization_opportunities" \in DOMAIN db_analysis_report.schema_overview
        /\ "partitioning_candidates" \in DOMAIN db_analysis_report.schema_overview
        /\ db_analysis_report.schema_overview.denormalization_opportunities.opportunity_level
               = "low"
        /\ db_analysis_report.schema_overview.partitioning_candidates = <<>>

Statistics == analysis_result.query_analysis.statistics
\* how often x stands in the sequence xs
Occurrences(xs, x) == Cardinality({i \in DOMAIN xs : xs[i] = x})
\* the sum over the given patterns of Weight(pattern)
OverPatterns(Weight(_)) == SumSeq([i \in DOMAIN GivenPatterns |-> Weight(GivenPatterns[i])])
JoinTypesOf(p) == [i \in DOMAIN p.joins |-> p.joins[i].type]

\* C23: table, filter-column and group-by-column usage grow by the pattern's
\* run_quantity per referenced item; the join-type and the aggregation
\* histograms grow by 1 per join descriptor and per aggregation function,
\* whatever the run_quantity; total_queries is the number of patterns and
\* the query_types values sum to it.
C23_StatisticsWeights ==
    pc = "counted" =>
        /\ Statistics.total_queries = Len(GivenPatterns)
        /\ SumValues(Statistics.query_types) = Len(GivenPatterns)
        /\ DOMAIN Statistics.most_used_tables
               = UNION {GivenPatterns[i].tables_used : i \in DOMAIN GivenPatterns}
        /\ \A t \in DOMAIN Statistics.most_used_tables :
               Statistics.most_used_tables[t]
                   = OverPatterns(LAMBDA p : IF t \in p.tables_used THEN p.run_quantity ELSE 0)
        /\ DOMAIN Statistics.most_used_filter_columns
               = UNION {GivenPatterns[i].filter_columns : i \in DOMAIN GivenPatterns}
        /\ \A c \in DOMAIN Statistics.most_used_filter_columns :
               Statistics.most_used_filter_columns[c]
                   = OverPatterns(LAMBDA p : IF c \in p.filter_columns
                                             THEN p.run_quantity ELSE 0)
        /\ DOMAIN Statistics.most_used_group_by_columns
               = UNION {Range(GivenPatterns[i].group_by_columns) : i \in DOMAIN GivenPatterns}
        /\ \A c \in DOMAIN Statistics.most_used_group_by_columns :
               Statistics.most_used_group_by_columns[c]
                   = OverPatterns(LAMBDA p : Occurrences(p.group_by_columns, c)
                                             * p.run_quantity)
        /\ DOMAIN Statistics.join_patterns
               = UNION {Range(JoinTypesOf(GivenPatterns[i])) : i \in DOMAIN GivenPatterns}
        /\ \A t \in DOMAIN Statistics.join_patterns :
               Statistics.join_patterns[t]
                   = OverPatterns(LAMBDA p : Occurrences(JoinTypesOf(p), t))
        /\ DOMAIN Statistics.aggregation_usage
               = UNION {Range(GivenPatterns[i].aggregations) : i \in DOMAIN GivenPatterns}
        /\ \A a \in DOMAIN Statistics.aggregation_usage :
               Statistics.aggregation_usage[a]
                   = OverPatterns(LAMBDA p : Occurrences(p.aggregations, a))

\* all six patterns: a pattern of 101 runs with three joins, a column grouped
\* by twice in one pattern, a pattern of no run at all
C23_Witness ==
    /\ pc = "counted"
    /\ Len(GivenPatterns) = 6
    /\ Statistics.join_patterns["INNER"] = 3
    /\ Statistics.join_patterns["LEFT"] = 4
    /\ Statistics.most_used_group_by_columns[W("region")] = 114
    /\ Statistics.most_used_group_by_columns[W("day")] = 0
    /\ Statistics.most_used_tables[W("orders")] = 108
    /\ Statistics.aggregation_usage["count"] = 2

\* C24 (as stated): every Table that parse_ddl_statements returns has a
\* non-empty name, and a statement from which no table name can be
\* extracted produces no Table.
C24_EveryTableIsNamed ==
    pc = "parsed" =>
        /\ \A i \in 1..Len(tables) : tables[i].name # <<>>
        /\ Len(tables) = Cardinality({k \in 1..Len(ddl_list) :
                                         extract_table_name(ddl_list[k].statement) # <<>>})

\* C25 (as stated): once the status of a task is DONE or FAILED it never
\* changes again, and completed_at is written at most once.
C25_FinalStatusIsFinal ==
    [][(task # NoTask /\ task.status \in {"DONE", "FAILED"} /\ task' # NoTask)
          => /\ task'.status = task.status
             /\ task'.completed_at = task.completed_at]_vars

\* C26: whenever the stored status of a task is DONE, its analysis report,
\* optimized DDL, migration scripts and rewritten queries are stored, and
\* there are as many stored rewritten queries as original queries.
C26_DoneTaskIsComplete ==
    (task # NoTask /\ task.status = "DONE") =>
        /\ task.db_analysis_report # <<>>
        /\ task.optimized_ddl # <<>>
        /\ task.migration_scripts # <<>>
        /\ task.rewritten_queries # <<>>
        /\ Len(task.rewritten_queries[1]) = Len(task.original_input.queries)

\* a task of two queries rewritten in two batches is DONE, after the
\* timeout check had marked it FAILED
C26_Witness ==
    /\ task # NoTask
    /\ task.status = "DONE"
    /\ Len(task.original_input.queries) = 2
    /\ batch_size = 1
    /\ response.endpoint = "status"
    /\ response.status = "FAILED"

\* C27 (as stated): llm_call_with_so_and_fallback ends either by returning
\* the first successful structured response or by raising ValueError after
\* exactly num_retries failed attempts, every exception of an attempt, the
\* switch to the fallback model included, being caught; the last attempt is
\* made with the fallback model.
C27_ReturnsOrRaisesValueError ==
    /\ pc = "returned" =>
           /\ so_calls[Len(so_calls)].ok
           /\ \A i \in 1..(Len(so_calls) - 1) : ~so_calls[i].ok
    /\ pc = "raised" =>
           /\ raised = "ValueError: All attempts failed for LLM call."
           /\ Len(so_calls) = num_retries
           /\ \A i \in 1..Len(so_calls) : ~so_calls[i].ok
    /\ (num_retries > 0 /\ Len(so_calls) = num_retries) =>
           so_calls[Len(so_calls)].model = "fallback"

\* the rows a step adds to log_entries, and those of them that announce a batch
NewLogs == SubSeq(logs', Len(logs) + 1, Len(logs'))
BatchRows == SelectSeq(NewLogs, LAMBDA row : "batch_num" \in DOMAIN row)

\* C28 (as stated): when there are more queries than batch_size, the rewriting
\* step works through consecutive slices of at most batch_size queries that
\* cover every query once, in the original order; it raises only when a batch
\* fails or returns another number of queries than it holds, and otherwise
\* stores rewritten query i for original query i.
C28_BatchesCoverEveryQuery ==
    [][(pc = "rewrite" /\ pc' = "ended" /\ task # NoTask
        /\ Len(queries) > batch_size) =>
          /\ \A k \in 1..Len(BatchRows) :
                 /\ BatchRows[k].first = IF k = 1 THEN 1 ELSE BatchRows[k - 1].last + 1
                 /\ BatchRows[k].last - BatchRows[k].first + 1 \in 1..batch_size
          /\ \/ /\ task'.status = "DONE"
                /\ (IF BatchRows = <<>> THEN 0 ELSE BatchRows[Len(BatchRows)].last)
                       = Len(queries)
                /\ task'.rewritten_queries =
                       <<[i \in 1..Len(queries) |-> Rewritten(i)]>>
             \/ /\ task' = task
                /\ BatchRows # <<>>
                /\ \/ raised' = "All 5 attempts failed for LLM call."
                   \/ Log("ERROR", "Batch failed") = NewLogs[Len(NewLogs) - 1]]_vars

\* C29 (as stated): the timeout check of GET /status sets a RUNNING task to
\* FAILED only when more than TASK_TIMEOUT_MINUTES have passed since that
\* task was submitted, whatever the age of the server process.
C29_TimeoutCountsFromSubmission ==
    [][(task # NoTask /\ task.status = "RUNNING"
        /\ task' # NoTask /\ task'.status = "FAILED") =>
          now - posted_at > TASK_TIMEOUT_MINUTES]_vars

\* the run quantity of every query, once per FROM/JOIN word in refs
RunsNaming(refs) ==
    SumSeq([i \in 1..Len(queries) |->
               queries[i].runquantity
               * Cardinality({k \in MentionAt(SplitWS(queries[i].query)) :
                                 SplitWS(queries[i].query)[k] \in refs})])

\* C30 (as stated): with sales.orders and archive.orders both declared and
\* at least one query, the two tables keep separate buckets, and the usage of each grows by exactly
\* the schema-qualified references to it: that of sales.orders by the
\* references sales.orders and analytics.sales.orders, that of
\* archive.orders by the references archive.orders.
C30_SchemasKeepSeparateBuckets ==
    (pc = "done" /\ ddl_list \in SharedNameSchemas /\ queries # <<>>) =>
        /\ {<<"sales", ".", "orders">>, <<"archive", ".", "orders">>}
               \subseteq DOMAIN TableUsage
        /\ TableUsage[<<"sales", ".", "orders">>] = RunsNaming(SalesRefs)
        /\ TableUsage[<<"archive", ".", "orders">>] = RunsNaming(ArchiveRefs)

====
